---------------------------- MODULE Spec2Model ----------------------------
(***************************************************************************)
(* A model of the zero-knowledge library: multilinear polynomials, the     *)
(* Fiat-Shamir transcript, sum-check, the layered circuit and GKR, the     *)
(* multilinear KZG commitment, the Merkle tree and FRI.                    *)
(*                                                                         *)
(* Field elements are the integers 0 .. P-1 with arithmetic modulo P.      *)
(* Group elements g1^x, g2^x and pairing outputs are modelled by their     *)
(* exponents x, so that e(g1^a, g2^b) is a*b.                              *)
(* A byte string is a sequence of integers; the encoding of a field        *)
(* element is the one-element sequence holding its canonical value.        *)
(* A Rust panic is modelled by the value Abort (for a table) or by the     *)
(* outcome "abort" (for a prover or verifier run).                         *)
(***************************************************************************)
EXTENDS Integers, Sequences, FiniteSets, TLC

VARIABLES
    proto,    \* which protocol run this behaviour is
    salt,     \* which hash function the transcript uses (see FieldOfDigest)
    input,    \* the inputs of the run
    proof,    \* the proof as it currently stands ("none" before proving)
    honest,   \* the proof as the honest prover returned it
    result,   \* outcome of the verifier: "none", "accept", "reject", "abort"
    sub,      \* what the verifier returned besides its verdict
    pc        \* "init", "proved", "tampered", "verified"

vars == <<proto, salt, input, proof, honest, result, sub, pc>>

-----------------------------------------------------------------------------
(* The prime field.                                                        *)

\* Modulus of the model's field F: PrimeField.  17 - 1 = 2^4, so the field
\* has the roots of unity of order 2, 4, 8 and 16 that FRI needs.
P == 17

F == 0 .. (P - 1)

FAdd(a, b) == (a + b) % P
FSub(a, b) == (a - b + P) % P
FMul(a, b) == (a * b) % P
FNeg(a) == (P - a) % P

RECURSIVE FPow(_, _)
FPow(a, n) == IF n = 0 THEN 1 ELSE FMul(a, FPow(a, n - 1))

\* F::inverse(): None for zero (the callers unwrap; they never pass zero here)
FInv(a) == FPow(a, P - 2)
FDiv(a, b) == FMul(a, FInv(b))

\* usize::is_power_of_two, usize::ilog2, usize::next_power_of_two
IsPow2(n) == n \in {1, 2, 4, 8, 16, 32, 64, 128, 256, 512, 1024}
RECURSIVE ILog2(_)
ILog2(n) == IF n <= 1 THEN 0 ELSE 1 + ILog2(n \div 2)
RECURSIVE Pow2(_)
Pow2(n) == IF n = 0 THEN 1 ELSE 2 * Pow2(n - 1)
NextPow2(n) == IF IsPow2(n) THEN n ELSE Pow2(ILog2(n) + 1)

\* the value a panic leaves in place of a table
Abort == <<-1>>

RECURSIVE SumSeq(_)
SumSeq(s) == IF s = <<>> THEN 0 ELSE FAdd(Head(s), SumSeq(Tail(s)))

\* a table built element by element and stored as a vector (Vec collect)
collect(s) == s \o <<>>
Take(s, n) == SubSeq(s, 1, n)
Drop(s, n) == SubSeq(s, n + 1, Len(s))

-----------------------------------------------------------------------------
(* Transcript (transcript.rs).                                             *)
(* The state of the hasher is the sequence of everything absorbed so far.  *)
(* The digest of a state is modelled by the state itself (a collision-free *)
(* hash); squeeze absorbs it, which is modelled by appending SqueezeMark:  *)
(* "the digest of everything before this position".                        *)

SqueezeMark == -1

TranscriptNew == <<>>

absorb(t, bytes) == t \o bytes

\* F::from_be_bytes_mod_order applied to the digest of hasher state t.  The
\* hash is an arbitrary function; salt selects one of P of them.
\* Byte by byte the digest h becomes 5 * h + byte + 7; MixSum is the share of
\* the bytes lo .. hi in the digest of the whole sequence.
RECURSIVE MixSum(_, _, _)
MixSum(s, lo, hi) ==
    IF lo > hi THEN 0
    ELSE IF lo = hi THEN FMul(FPow(5, (Len(s) - lo) % (P - 1)), s[lo] + 7)
    ELSE FAdd(MixSum(s, lo, (lo + hi) \div 2), MixSum(s, (lo + hi) \div 2 + 1, hi))

Mix(h, s) == FAdd(FMul(FPow(5, Len(s) % (P - 1)), h), MixSum(s, 1, Len(s)))

FieldOfDigest(t) == Mix(salt, t)

\* squeeze: returns the digest of the state and updates the hasher with it
squeezeOut(t) == FieldOfDigest(t)
squeezeState(t) == Append(t, SqueezeMark)

\* MultiLinearPoly::to_bytes: concatenation of the field encodings
to_bytes(c) == c

-----------------------------------------------------------------------------
(* MultiLinearPoly (multi_linear.rs).                                      *)

variable_count(c) == ILog2(Len(c))

\* a wrong loop index: the loop never jumps over the entries it paired
y_1_i_without_jump(j, step) == j

\* The while loop of partial_evaluate: y_1_i is the 0-based read position.
\* the j-th index (from 0) the loop of partial_evaluate visits: y_1_i runs
\* through `step` consecutive entries, then jumps over the next `step`
y_1_i(j, step) == (j \div step) * 2 * step + (j % step)

\* the loop of partial_evaluate: it stops at the first y_1_i >= len, and
\* indexing y_1_i + step past the end is a panic
PELoop(c, r, step) ==
    LET visits == Cardinality({j \in 0 .. (Len(c) - 1) : y_1_i(j, step) < Len(c)})
    IN IF \E j \in 0 .. (visits - 1) : y_1_i(j, step) + step >= Len(c) THEN Abort
       ELSE collect([k \in 1 .. visits |->
                LET y_1 == c[y_1_i(k - 1, step) + 1]
                    y_2 == c[y_1_i(k - 1, step) + step + 1]
                IN FAdd(y_1, FMul(FSub(y_2, y_1), r))])

partial_evaluate(c, r, pos) ==
    IF c = Abort THEN Abort
    ELSE IF variable_count(c) - pos - 1 < 0 THEN Abort   \* get_power underflows
    ELSE LET out == PELoop(c, r, Pow2(variable_count(c) - pos - 1))
         IN IF out = Abort THEN Abort
            ELSE IF ~IsPow2(Len(out)) THEN Abort         \* MultiLinearPoly::new
            ELSE out

\* the while loop of partial_evaluate step by step: y is y_1_i, a read past
\* the end of the table is a panic
RECURSIVE partial_evaluate_loop(_, _, _, _, _)
partial_evaluate_loop(c, r, step, y, new_computation) ==
    IF y >= Len(c) THEN new_computation
    ELSE IF y + step >= Len(c) THEN Abort
    ELSE partial_evaluate_loop(c, r, step,
             IF (y + 1) % step = 0 THEN y + step + 1 ELSE y + 1,
             Append(new_computation,
                    FAdd(c[y + 1], FMul(FSub(c[y + step + 1], c[y + 1]), r))))

\* a wrong loop: the points are consumed from the last one
RECURSIVE EvalLoopLastFirst(_, _)
EvalLoopLastFirst(c, pts) ==
    IF pts = <<>> THEN c
    ELSE EvalLoopLastFirst(partial_evaluate(c, pts[Len(pts)], 0),
                           Take(pts, Len(pts) - 1))

RECURSIVE EvalLoop(_, _)
EvalLoop(c, pts) ==
    IF pts = <<>> THEN c
    ELSE EvalLoop(partial_evaluate(c, Head(pts), 0), Tail(pts))

evaluate(c, pts) ==
    IF c = Abort THEN Abort
    ELSE IF Len(pts) # variable_count(c) THEN Abort
    ELSE EvalLoop(c, pts)

-----------------------------------------------------------------------------
(* UnivariatePoly (lib.rs): coefficients from the constant term upward.    *)

degree(c) == Len(c) - 1

\* evaluate: Horner's rule from the highest coefficient (iter().rev().reduce)
RECURSIVE Horner(_, _, _)
Horner(acc, rest, x) ==
    IF rest = <<>> THEN acc
    ELSE Horner(FAdd(FMul(acc, x), rest[Len(rest)]), Take(rest, Len(rest) - 1), x)

uni_evaluate(c, x) == Horner(c[Len(c)], Take(c, Len(c) - 1), x)

scalar_mul(c, k) == collect([i \in 1 .. Len(c) |-> FMul(c[i], k)])

\* impl Mul: dense convolution
uni_mul(a, b) ==
    collect([k \in 1 .. (degree(a) + degree(b) + 1) |->
        LET idx == {i \in 1 .. Len(a) : (k + 1 - i) \in 1 .. Len(b)}
            terms == [i \in idx |-> FMul(a[i], b[k + 1 - i])]
            RECURSIVE Acc(_)
            Acc(S) == IF S = {} THEN 0
                      ELSE LET i == CHOOSE j \in S : TRUE
                           IN FAdd(terms[i], Acc(S \ {i}))
        IN Acc(idx)])

\* impl Add: the shorter operand is added into the longer one
uni_add(a, b) ==
    LET bigger  == IF degree(a) < degree(b) THEN b ELSE a
        smaller == IF degree(a) < degree(b) THEN a ELSE b
    IN collect([i \in 1 .. Len(bigger) |->
            IF i <= Len(smaller) THEN FAdd(bigger[i], smaller[i]) ELSE bigger[i]])

\* basis: prod_{x_i # x} (X - x_i), divided by its value at x
RECURSIVE NumeratorLoop(_, _, _)
NumeratorLoop(acc, set, x) ==
    IF set = <<>> THEN acc
    ELSE NumeratorLoop(IF Head(set) # x
                         THEN uni_mul(acc, <<FNeg(Head(set)), 1>>)
                         ELSE acc,
                       Tail(set), x)

\* a wrong basis: the numerator is not divided by its value at x
basis_unnormalised(x, interpolating_set) == NumeratorLoop(<<1>>, interpolating_set, x)

basis(x, interpolating_set) ==
    LET numerator   == NumeratorLoop(<<1>>, interpolating_set, x)
        denominator == FDiv(1, uni_evaluate(numerator, x))
    IN scalar_mul(numerator, denominator)

\* interpolate: sum over zip(xs, ys) of basis(x, xs) * y
RECURSIVE InterpolateLoop(_, _, _, _)
InterpolateLoop(acc, xs, ys, i) ==
    IF i > Len(xs) \/ i > Len(ys) THEN acc
    ELSE InterpolateLoop(uni_add(acc, scalar_mul(basis(xs[i], xs), ys[i])),
                         xs, ys, i + 1)

interpolate(xs, ys) == InterpolateLoop(<<0>>, xs, ys, 1)

-----------------------------------------------------------------------------
(* ProductPoly (gkr/product_poly.rs): a sequence of tables (the factors).  *)

get_degree(pp) == Len(pp)

\* ProductPoly::new asserts that every factor has the length of the first
ProductPolyNewOk(pp) == \A k \in 1 .. Len(pp) : Len(pp[k]) = Len(pp[1])

\* a wrong partial evaluation: the last variable in place of the named one
pp_partial_evaluate_last(pp, r, pos) ==
    collect([k \in 1 .. Len(pp) |->
                partial_evaluate(pp[k], r, variable_count(pp[k]) - 1)])

pp_partial_evaluate(pp, r, pos) ==
    collect([k \in 1 .. Len(pp) |-> partial_evaluate(pp[k], r, pos)])

RECURSIVE ProdAt(_, _, _)
ProdAt(pp, i, k) == IF k > Len(pp) THEN 1 ELSE FMul(pp[k][i], ProdAt(pp, i, k + 1))

\* reduce: the elementwise product of the factors
pp_reduce(pp) == collect([i \in 1 .. Len(pp[1]) |-> ProdAt(pp, i, 1)])

\* univariate_to_evaluation: for i = 0 .. d, the sum of the elementwise
\* product of the factors partially evaluated at F::from(i)
univariate_to_evaluation(pp) ==
    IF ~ProductPolyNewOk(pp) THEN Abort
    ELSE LET pe == collect([i \in 1 .. (get_degree(pp) + 1) |->
                            pp_partial_evaluate(pp, (i - 1) % P, 0)])
         IN IF \E i \in 1 .. Len(pe) : \E k \in 1 .. Len(pp) : pe[i][k] = Abort
            THEN Abort
            ELSE collect([i \in 1 .. Len(pe) |-> SumSeq(pp_reduce(pe[i]))])

\* ProductPoly (product_poly.rs): new compares the first two factors only,
\* partial_evaluate returns the elementwise product of the factors partially
\* evaluated, evaluate sums it for i = 0 .. d
product_poly_partial_evaluate(pp, r, pos) ==
    LET new_poly_array == collect([k \in 1 .. Len(pp) |-> partial_evaluate(pp[k], r, pos)])
    IN IF \E k \in 1 .. Len(pp) : new_poly_array[k] = Abort THEN Abort
       ELSE IF \E k \in 1 .. Len(pp) : Len(new_poly_array[k]) < Len(new_poly_array[1])
       THEN Abort
       ELSE pp_reduce(new_poly_array)

product_poly_evaluate(pp) ==
    IF Len(pp) < 2 THEN Abort
    ELSE IF Len(pp[1]) # Len(pp[2]) THEN Abort
    ELSE LET pe == collect([i \in 1 .. (Len(pp) + 1) |->
                            product_poly_partial_evaluate(pp, (i - 1) % P, 0)])
         IN IF \E i \in 1 .. Len(pe) : pe[i] = Abort THEN Abort
            ELSE collect([i \in 1 .. Len(pe) |-> SumSeq(pe[i])])

-----------------------------------------------------------------------------
(* Sum-check over a sum of products (gkr/partial_sum_check.rs).            *)

\* reduce: the elementwise sum of the terms' sample vectors
\* a wrong reduce: the evaluations of the first term alone
psc_reduce_first_term(arrs) == arrs[1]

psc_reduce(arrs) ==
    collect([i \in 1 .. Len(arrs[1]) |->
        SumSeq([k \in 1 .. Len(arrs) |-> arrs[k][i]])])

\* One pass of the prover's while loop is one call; st carries sum_poly,
\* the transcript, the challenges and the round polynomials.
RECURSIVE PscProofLoop(_, _, _, _, _)
PscProofLoop(sum_poly, n, t, challenges, round_polys) ==
    IF \E k \in 1 .. Len(sum_poly) : \E j \in 1 .. Len(sum_poly[k]) :
           sum_poly[k][j] = Abort
    THEN [ok |-> FALSE]
    ELSE IF n = 0
    THEN [ok |-> TRUE, sum_poly |-> sum_poly, challenges |-> challenges,
          round_polys |-> round_polys]
    ELSE LET eval_array == collect([k \in 1 .. Len(sum_poly) |->
                               univariate_to_evaluation(sum_poly[k])])
         IN IF \E k \in 1 .. Len(sum_poly) : eval_array[k] = Abort
            THEN [ok |-> FALSE]
            ELSE LET round_poly == psc_reduce(eval_array)
                     t1         == absorb(t, to_bytes(round_poly))
                     challenge  == squeezeOut(t1)
                     t2         == squeezeState(t1)
                 IN PscProofLoop(
                        collect([k \in 1 .. Len(sum_poly) |->
                            pp_partial_evaluate(sum_poly[k], challenge, 0)]),
                        n - 1, t2, Append(challenges, challenge),
                        Append(round_polys, round_poly))

psc_proof(sum_poly, init_claimed_sum) ==
    LET initial_length == ILog2(Len(sum_poly[1][1]))
        run == PscProofLoop(sum_poly, initial_length, TranscriptNew, <<>>, <<>>)
    IN IF ~run.ok THEN [ok |-> FALSE]
       ELSE [ok |-> TRUE, sum_poly |-> run.sum_poly,
             init_claimed_sum |-> init_claimed_sum,
             challenges |-> run.challenges, round_polys |-> run.round_polys]

\* proof of partial_sum_check.rs at the crate root: the same loop, run once
\* per factor of the first term (`sum_poly[0].poly_array.len()`); its Proof
\* has no challenges field
partial_sum_check_proof(sum_poly, init_claimed_sum) ==
    LET initial_length == Len(sum_poly[1])
        run == PscProofLoop(sum_poly, initial_length, TranscriptNew, <<>>, <<>>)
    IN IF ~run.ok THEN [ok |-> FALSE]
       ELSE [ok |-> TRUE, sum_poly |-> run.sum_poly,
             init_claimed_sum |-> init_claimed_sum, round_polys |-> run.round_polys]

\* verify: a SubClaim, or a panic when a round's sum does not match
RECURSIVE PscVerifyLoop(_, _, _, _, _, _)
PscVerifyLoop(round_polys, i, xs, t, claimed_sum, challenges) ==
    IF i > Len(round_polys)
    THEN [ok |-> TRUE, challenges |-> challenges, last_claimed_sum |-> claimed_sum]
    ELSE LET round_poly == round_polys[i]
         IN IF Len(round_poly) < 2 THEN [ok |-> FALSE]        \* index out of bounds
            ELSE IF claimed_sum # FAdd(round_poly[1], round_poly[2])
            THEN [ok |-> FALSE]                               \* panic!
            ELSE LET t1        == absorb(t, to_bytes(round_poly))
                     challenge == squeezeOut(t1)
                     t2        == squeezeState(t1)
                     equation  == interpolate(xs, round_poly)
                 IN PscVerifyLoop(round_polys, i + 1, xs, t2,
                                  uni_evaluate(equation, challenge),
                                  Append(challenges, challenge))

psc_verify(p) ==
    LET deg == get_degree(p.sum_poly[1])
        xs  == collect([i \in 1 .. (deg + 1) |-> (i - 1) % P])
    IN PscVerifyLoop(p.round_polys, 1, xs, TranscriptNew, p.init_claimed_sum, <<>>)

-----------------------------------------------------------------------------
(* Circuit (gkr_protocol.rs).  A circuit is [inputs, layers]; a layer is a *)
(* sequence of gates [left, right, op, output] with 0-based wire indices.  *)

Gate(l, r, o, out) == [left |-> l, right |-> r, op |-> o, output |-> out]

\* one layer of evaluate: next_layer starts as zeros, each gate writes its output
RECURSIVE GateLoop(_, _, _, _)
GateLoop(gates, g, current_layer, next_layer) ==
    IF g > Len(gates) THEN next_layer
    ELSE LET gate == gates[g]
             left == current_layer[gate.left + 1]
             right == current_layer[gate.right + 1]
             res == IF gate.op = "Add" THEN FAdd(left, right) ELSE FMul(left, right)
         IN GateLoop(gates, g + 1, current_layer,
                     [next_layer EXCEPT ![gate.output + 1] = res])

RECURSIVE CircuitEvalLoop(_, _, _, _)
CircuitEvalLoop(layers, i, current_layer, eval_layers) ==
    IF i > Len(layers) THEN eval_layers
    ELSE LET next_layer == GateLoop(layers[i], 1, current_layer,
                                    collect([k \in 1 .. Len(layers[i]) |-> 0]))
         IN CircuitEvalLoop(layers, i + 1, next_layer, Append(eval_layers, next_layer))

\* an evaluate whose result starts at the first layer of gates, without the inputs
evaluate_without_inputs(c) == CircuitEvalLoop(c.layers, 1, c.inputs, <<>>)

\* Circuit::evaluate: eval_layers[1] is the inputs, eval_layers[i + 1] layer i
circuit_evaluate(c) == CircuitEvalLoop(c.layers, 1, c.inputs, <<c.inputs>>)

\* the bit widths layer_i_add_mul derives from the gate count
input_bits(gates) == IF Len(gates) = 1 THEN 1 ELSE ILog2(2 * NextPow2(Len(gates)))
output_bits(gates) == IF Len(gates) = 1 THEN 1 ELSE ILog2(NextPow2(Len(gates)))

gate_index(gates, gate) ==
    LET n_bits == 2 * input_bits(gates) + output_bits(gates)
        output_start_index == n_bits - output_bits(gates)
        left_start_index == output_start_index - input_bits(gates)
    IN gate.output * Pow2(output_start_index) + gate.left * Pow2(left_start_index)
       + gate.right

\* Circuit::layer_i_add_mul(layer_i): the pair <<add_vec, mul_vec>>
layer_i_add_mul(c, layer_i) ==
    LET gates == c.layers[layer_i]
        n_bits == 2 * input_bits(gates) + output_bits(gates)
        total_combinations == Pow2(n_bits)
        add_hits == {gate_index(gates, gates[g]) :
                        g \in {h \in 1 .. Len(gates) : gates[h].op = "Add"}}
        mul_hits == {gate_index(gates, gates[g]) :
                        g \in {h \in 1 .. Len(gates) : gates[h].op = "Mul"}}
    IN << collect([k \in 1 .. total_combinations |->
                      IF (k - 1) \in add_hits THEN 1 ELSE 0]),
          collect([k \in 1 .. total_combinations |->
                      IF (k - 1) \in mul_hits THEN 1 ELSE 0]) >>

\* Circuit::explode_w_i(layer_i): <<w_i_b, w_i_c>>, each of length n * n
explode_w_i(c, layer_i) ==
    LET poly == circuit_evaluate(c)[layer_i + 1]
        n == Len(poly)
    IN << collect([k \in 1 .. (n * n) |-> poly[((k - 1) \div n) + 1]]),
          collect([k \in 1 .. (n * n) |-> poly[((k - 1) % n) + 1]]) >>

element_wise_op(a, b, op) ==
    collect([k \in 1 .. Len(a) |->
                IF op = "Add" THEN FAdd(a[k], b[k]) ELSE FMul(a[k], b[k])])

-----------------------------------------------------------------------------
(* The 2-to-1 trick (gkr_2_to_1_trick.rs).                                 *)

RECURSIVE PartialAll(_, _)
PartialAll(c, rs) ==
    IF rs = <<>> THEN c ELSE PartialAll(partial_evaluate(c, Head(rs), 0), Tail(rs))

\* alpha and beta: the first two squeezes of a transcript created in the call
\* (gkr_trick and new_claimed_sum each open with `Transcript::new()`)
trick_transcript == TranscriptNew
trick_alpha == squeezeOut(trick_transcript)
trick_beta == squeezeOut(squeezeState(trick_transcript))

\* zip(rb, rc).map(alpha * rb + beta * rc), then MultiLinearPoly::new
Combine(rb, rc) ==
    IF rb = Abort \/ rc = Abort THEN Abort
    ELSE LET n == IF Len(rb) < Len(rc) THEN Len(rb) ELSE Len(rc)
         IN IF ~IsPow2(n) THEN Abort
            ELSE collect([k \in 1 .. n |->
                     FAdd(FMul(trick_alpha, rb[k]), FMul(trick_beta, rc[k]))])

\* Circuit::gkr_trick(challenges, index): <<new_add, new_mul>>
gkr_trick(c, challenges, index) ==
    LET am == layer_i_add_mul(c, index)
        mid == Len(challenges) \div 2
        r_b == Take(challenges, mid)
        r_c == Drop(challenges, mid)
    IN << Combine(PartialAll(am[1], r_b), PartialAll(am[1], r_c)),
          Combine(PartialAll(am[2], r_b), PartialAll(am[2], r_c)) >>

\* Circuit::new_claimed_sum(w_i_arr, challenges); -1 stands for a panic
new_claimed_sum(w_i_arr, challenges) ==
    LET mid == Len(challenges) \div 2
        w_i_b == PartialAll(w_i_arr, Take(challenges, mid))
        w_i_c == PartialAll(w_i_arr, Drop(challenges, mid))
    IN IF ~IsPow2(Len(w_i_arr)) \/ w_i_b = Abort \/ w_i_c = Abort THEN -1
       ELSE LET n == IF Len(w_i_b) < Len(w_i_c) THEN Len(w_i_b) ELSE Len(w_i_c)
            IN SumSeq([k \in 1 .. n |->
                          FAdd(FMul(trick_alpha, w_i_b[k]), FMul(trick_beta, w_i_c[k]))])

-----------------------------------------------------------------------------
(* KZG over multilinear polynomials (kzg/).  A group element g^x is        *)
(* modelled by its exponent x, so adding group elements adds exponents,    *)
(* mul_bigint multiplies them, and pairing(g1^a, g2^b) is a * b.           *)

pairing(a, b) == FMul(a, b)

\* bit `pos` (0 = least significant) of i
Bit(i, pos) == (i \div Pow2(pos)) % 2

RECURSIVE BasisProduct(_, _, _, _)
BasisProduct(tau_arr, i, num_bits, bit_position) ==
    IF bit_position >= num_bits THEN 1
    ELSE LET msb_position == num_bits - 1 - bit_position
             val == IF Bit(i, msb_position) = 1
                    THEN tau_arr[bit_position + 1]
                    ELSE FSub(1, tau_arr[bit_position + 1])
         IN FMul(val, BasisProduct(tau_arr, i, num_bits, bit_position + 1))

\* a wrong basis: tau_arr[0] goes with the least significant index bit
RECURSIVE BasisProductLsbFirst(_, _, _, _)
BasisProductLsbFirst(tau_arr, i, num_bits, bit_position) ==
    IF bit_position >= num_bits THEN 1
    ELSE LET val == IF Bit(i, bit_position) = 1
                    THEN tau_arr[bit_position + 1]
                    ELSE FSub(1, tau_arr[bit_position + 1])
         IN FMul(val, BasisProductLsbFirst(tau_arr, i, num_bits, bit_position + 1))

compute_lagrange_basis_lsb_first(tau_arr) ==
    collect([k \in 1 .. Pow2(Len(tau_arr)) |->
                BasisProductLsbFirst(tau_arr, k - 1, Len(tau_arr), 0)])

compute_lagrange_basis(tau_arr) ==
    collect([k \in 1 .. Pow2(Len(tau_arr)) |->
                BasisProduct(tau_arr, k - 1, Len(tau_arr), 0)])

\* trusted_setup::initialize: g1_arr holds the basis, g2_arr the taus
initialize(tau_arr) ==
    [max_input |-> Len(tau_arr), g1_arr |-> compute_lagrange_basis(tau_arr),
     g2_arr |-> tau_arr]

\* sum of basis[j] * table[j] over the basis; -1 when the table is too short
compute_commitment(poly, encrypted_basis) ==
    IF Len(poly) < Len(encrypted_basis) THEN -1
    ELSE SumSeq([j \in 1 .. Len(encrypted_basis) |-> FMul(encrypted_basis[j], poly[j])])

compute_poly_minus_v(poly, vars_to_open) ==
    LET eval_poly == evaluate(poly, vars_to_open)
    IN IF eval_poly = Abort THEN Abort
       ELSE collect([k \in 1 .. Len(poly) |-> FSub(poly[k], eval_poly[1])])

\* a wrong quotient: first half minus second half
compute_quotient_negated(poly) ==
    LET mid == Len(poly) \div 2
    IN collect([k \in 1 .. mid |-> FSub(poly[k], poly[mid + k])])

compute_quotient(poly) ==
    LET mid == Len(poly) \div 2
    IN collect([k \in 1 .. mid |-> FSub(poly[mid + k], poly[k])])

compute_remainder(poly, eval_point) == partial_evaluate(poly, eval_point, 0)

explode(poly) == poly \o poly

RECURSIVE blow_up(_, _)
blow_up(poly, blow_up_times) ==
    IF blow_up_times = 0 THEN poly ELSE blow_up(explode(poly), blow_up_times - 1)

\* the quotient loop shared by kzg::proof and succinct_proof
RECURSIVE QuotientLoop(_, _, _, _, _)
QuotientLoop(poly_minus_v, encrypted_basis, vars_to_open, i, quotient_evals) ==
    IF i >= Len(vars_to_open) THEN [ok |-> TRUE, quotient_evals |-> quotient_evals,
                                    rest |-> poly_minus_v]
    ELSE IF poly_minus_v = Abort \/ Len(poly_minus_v) < 2 THEN [ok |-> FALSE]
    ELSE LET quotient == compute_quotient(poly_minus_v)
             blown_quotient == blow_up(quotient, i + 1)
             quotient_eval == compute_commitment(blown_quotient, encrypted_basis)
         IN IF quotient_eval = -1 THEN [ok |-> FALSE]
            ELSE QuotientLoop(compute_remainder(poly_minus_v, vars_to_open[i + 1]),
                              encrypted_basis, vars_to_open, i + 1,
                              Append(quotient_evals, quotient_eval))

kzg_proof(poly, encrypted_basis, vars_to_open) ==
    LET v == evaluate(poly, vars_to_open)
        commitment == compute_commitment(poly, encrypted_basis)
        run == QuotientLoop(compute_poly_minus_v(poly, vars_to_open), encrypted_basis,
                            vars_to_open, 0, <<>>)
    IN IF ~IsPow2(Len(poly)) \/ v = Abort \/ commitment = -1 THEN [ok |-> FALSE]
       ELSE IF ~run.ok THEN [ok |-> FALSE]
       ELSE IF run.rest[1] # 0 THEN [ok |-> FALSE]            \* assert_eq!
       ELSE [ok |-> TRUE, poly_opened |-> v[1], commitment |-> commitment,
             quotient_evals |-> run.quotient_evals]

\* the right-hand side: sum over the taus of pairing(Q_i, tau_i - a_i)
PairingSum(quotient_evals, encrypted_taus, vars_to_open) ==
    SumSeq([i \in 1 .. Len(encrypted_taus) |->
               pairing(quotient_evals[i], FSub(encrypted_taus[i], vars_to_open[i]))])

\* kzg::verify: "abort" when an index runs past quotient_evals or vars_to_open
kzg_verify(pr, encrypted_taus, vars_to_open) ==
    IF Len(pr.quotient_evals) < Len(encrypted_taus)
       \/ Len(vars_to_open) < Len(encrypted_taus) THEN "abort"
    ELSE LET rhs == PairingSum(pr.quotient_evals, encrypted_taus, vars_to_open)
             lhs == pairing(FSub(pr.commitment, pr.poly_opened), 1)
         IN IF lhs = rhs THEN "accept" ELSE "reject"

-----------------------------------------------------------------------------
(* GKR prover, shared by Circuit::proof (gkr_sum_check.rs) and             *)
(* Circuit::succinct_proof (gkr/succinct_gkr.rs).                          *)

\* W_0 padded to a power of two (a single output becomes [w, 0])
pad_w_0(w_0) ==
    IF Len(w_0) = 1 THEN <<w_0[1], 0>>
    ELSE IF IsPow2(Len(w_0)) THEN w_0
    ELSE collect([k \in 1 .. NextPow2(Len(w_0)) |->
                     IF k <= Len(w_0) THEN w_0[k] ELSE 0])

\* n successive squeezes: <<challenges, transcript afterwards>>
RECURSIVE SqueezeN(_, _, _)
SqueezeN(t, n, acc) ==
    IF n = 0 THEN <<acc, t>>
    ELSE SqueezeN(squeezeState(t), n - 1, Append(acc, squeezeOut(t)))

\* the two sum-check terms add_i * (W_b + W_c) and mul_i * (W_b * W_c)
LayerPoly(c, add_mle, mul_mle, next_layer_idx) ==
    LET w == explode_w_i(c, next_layer_idx)
        sum_term == element_wise_op(w[1], w[2], "Add")
        mul_term == element_wise_op(w[1], w[2], "Mul")
    IN << <<add_mle, sum_term>>, <<mul_mle, mul_term>> >>

LayerPolyOk(p_poly) ==
    /\ p_poly[1][1] # Abort /\ p_poly[2][1] # Abort
    /\ ProductPolyNewOk(p_poly[1]) /\ ProductPolyNewOk(p_poly[2])

\* the loop over layer_idx = circuit_len - 1 down to 1
RECURSIVE LayerLoop(_, _, _, _, _)
LayerLoop(c, evaluated_circuit, layer_idx, challenges, p_proofs) ==
    IF layer_idx < 1 THEN [ok |-> TRUE, p_proofs |-> p_proofs]
    ELSE LET current_layer_w == evaluated_circuit[layer_idx + 1]
             claimed_sum == new_claimed_sum(current_layer_w, challenges)
             trick == gkr_trick(c, challenges, layer_idx)
             p_poly == LayerPoly(c, trick[1], trick[2], layer_idx - 1)
             Continue(p_proof) ==
                 IF ~p_proof.ok THEN [ok |-> FALSE]
                 ELSE LayerLoop(c, evaluated_circuit, layer_idx - 1,
                                p_proof.challenges, Append(p_proofs, p_proof))
         IN IF claimed_sum = -1 \/ ~LayerPolyOk(p_poly) THEN [ok |-> FALSE]
            ELSE Continue(psc_proof(p_poly, claimed_sum))

\* w_i evaluated at r_b and r_c for layer_idx = circuit_len - 1 down to 0
w_i_eval_at(evaluated_circuit, p_proofs, circuit_len, layer_idx) ==
    LET current_layer_w == evaluated_circuit[layer_idx + 1]
        challenges == p_proofs[circuit_len - layer_idx].challenges
        mid == Len(challenges) \div 2
    IN IF ~IsPow2(Len(current_layer_w)) THEN Abort
       ELSE LET w_i_b == evaluate(current_layer_w, Take(challenges, mid))
                w_i_c == evaluate(current_layer_w, Drop(challenges, mid))
            IN IF w_i_b = Abort \/ w_i_c = Abort THEN Abort
               ELSE <<w_i_b[1], w_i_c[1]>>

\* the prover's r_a: the transcript absorbs the padded W_0, then the succinct
\* prover squeezes one challenge per variable of W_0 and the plain prover one
prover_r_a(w_0_arr, many_r_a) ==
    SqueezeN(absorb(TranscriptNew, to_bytes(w_0_arr)),
             IF many_r_a THEN ILog2(Len(w_0_arr)) ELSE 1, <<>>)[1]

\* the verifier's r_a: it absorbs proof.output_layer and squeezes once
verifier_r_a(output_layer) ==
    squeezeOut(absorb(TranscriptNew, to_bytes(output_layer)))

\* table w_0_arr with its first entry moved by delta
sent_w_0(w_0_arr, delta) ==
    collect([k \in 1 .. Len(w_0_arr) |->
                IF k = 1 THEN FAdd(w_0_arr[k], delta) ELSE w_0_arr[k]])

\* everything up to and including w_i_evals; many_r_a is TRUE for the
\* succinct prover, which squeezes one r_a per variable of W_0.  The
\* prover absorbs and sends as output_layer the padded W_0 with its first
\* entry moved by delta: delta is 0 for the prover of the source and not 0
\* for a prover that lies about the output.
GkrProveSending(c, many_r_a, delta) ==
    IF Len(c.layers) = 0 THEN [ok |-> FALSE]                \* circuit_len - 1 underflows
    ELSE
    LET evaluated_circuit == circuit_evaluate(c)
        circuit_len == Len(evaluated_circuit) - 1
        w_0_arr == pad_w_0(evaluated_circuit[circuit_len + 1])
        r_a_challenges == prover_r_a(sent_w_0(w_0_arr, delta), many_r_a)
        w_0_eval == IF many_r_a THEN evaluate(w_0_arr, r_a_challenges)
                    ELSE partial_evaluate(w_0_arr, r_a_challenges[1], 0)
        am == layer_i_add_mul(c, circuit_len)
        p_poly == LayerPoly(c, PartialAll(am[1], r_a_challenges),
                            PartialAll(am[2], r_a_challenges), circuit_len - 1)
        Finish(p_proofs, w_i_evals) ==
            IF \E k \in 1 .. circuit_len : w_i_evals[k] = Abort
            THEN [ok |-> FALSE]
            ELSE [ok |-> TRUE, output_layer |-> sent_w_0(w_0_arr, delta),
                  w_i_evals |-> w_i_evals, p_proofs |-> p_proofs]
        Evals(run) ==
            IF ~run.ok THEN [ok |-> FALSE]
            ELSE Finish(run.p_proofs,
                        collect([k \in 1 .. circuit_len |->
                                    w_i_eval_at(evaluated_circuit, run.p_proofs,
                                                circuit_len, circuit_len - k)]))
        Layers(first) ==
            IF ~first.ok THEN [ok |-> FALSE]
            ELSE Evals(LayerLoop(c, evaluated_circuit, circuit_len - 1,
                                 first.challenges, <<first>>))
    IN IF w_0_eval = Abort \/ ~LayerPolyOk(p_poly) THEN [ok |-> FALSE]
       ELSE Layers(psc_proof(p_poly, w_0_eval[1]))

\* the prover of the source absorbs and sends the padded W_0 itself
GkrProve(c, many_r_a) == GkrProveSending(c, many_r_a, 0)

\* Circuit::proof
gkr_proof(c) == GkrProve(c, FALSE)

\* the part of succinct_proof after w_i_evals: the commitment to the inputs
\* and the openings at r_b and r_c, added to the GKR part g
SuccinctOpenings(c, encrypted_basis, gkr_part) ==
    LET Quotients(r_challenges) ==
            QuotientLoop(compute_poly_minus_v(c.inputs, r_challenges),
                         encrypted_basis, r_challenges, 0, <<>>)
        Assemble(g, commitment, qb, qc) ==
            IF commitment = -1 \/ ~qb.ok \/ ~qc.ok THEN [ok |-> FALSE]
            ELSE [ok |-> TRUE, output_layer |-> g.output_layer,
                  w_i_evals |-> g.w_i_evals, p_proofs |-> g.p_proofs,
                  commitment |-> commitment,
                  quotient_evals_rb |-> qb.quotient_evals,
                  quotient_evals_rc |-> qc.quotient_evals]
        Open(g, final_challenges) ==
            Assemble(g, compute_commitment(c.inputs, encrypted_basis),
                     Quotients(Take(final_challenges, Len(final_challenges) \div 2)),
                     Quotients(Drop(final_challenges, Len(final_challenges) \div 2)))
        Commit(g) ==
            IF ~g.ok \/ ~IsPow2(Len(c.inputs)) THEN [ok |-> FALSE]
            ELSE Open(g, g.p_proofs[Len(g.p_proofs)].challenges)
    IN Commit(gkr_part)

\* Circuit::succinct_proof
succinct_proof(c, encrypted_basis) ==
    SuccinctOpenings(c, encrypted_basis, GkrProve(c, TRUE))

-----------------------------------------------------------------------------
(* GKR verifiers: Circuit::verify and Circuit::succinct_verify.            *)

\* new_add(challenges) * (w_b + w_c) + new_mul(challenges) * (w_b * w_c);
\* -1 when evaluate panics on the number of points
OracleValue(new_add, new_mul, challenges, w_b, w_c) ==
    LET new_add_eval == evaluate(new_add, challenges)
        new_mul_eval == evaluate(new_mul, challenges)
    IN IF new_add_eval = Abort \/ new_mul_eval = Abort THEN -1
       ELSE FAdd(FMul(new_add_eval[1], FAdd(w_b, w_c)),
                 FMul(new_mul_eval[1], FMul(w_b, w_c)))

\* the loop over proof.p_proofs, the same text in both verifiers
RECURSIVE VerifyLoop(_, _, _, _, _, _, _)
VerifyLoop(c, pr, i, new_add, new_mul, last_challenges, st) ==
    IF i >= Len(pr.p_proofs)
    THEN [verdict |-> "continue", last_challenges |-> last_challenges,
          curr_challenges |-> st.curr_challenges,
          current_claimed_sum |-> st.current_claimed_sum, last_idx |-> st.last_idx]
    ELSE LET Fold(trick, challenges, st1) ==
                 IF trick[1] = Abort \/ trick[2] = Abort THEN [verdict |-> "abort"]
                 ELSE VerifyLoop(c, pr, i + 1, trick[1], trick[2], challenges, st1)
             Oracle(check, sub_claim, st1) ==
                 LET layer_i == Len(c.layers) - i - 1
                 IN IF check = -1 THEN [verdict |-> "abort"]
                    ELSE IF check # sub_claim.last_claimed_sum
                    THEN [verdict |-> "reject"]
                    ELSE IF layer_i < 1 \/ layer_i > Len(c.layers)
                    THEN [verdict |-> "abort"]
                    ELSE Fold(gkr_trick(c, sub_claim.challenges, layer_i),
                              sub_claim.challenges, st1)
             Round(sub_claim, st1) ==
                 IF i < Len(pr.p_proofs) - 1
                 THEN IF i + 1 > Len(pr.w_i_evals) THEN [verdict |-> "abort"]
                      ELSE Oracle(OracleValue(new_add, new_mul, sub_claim.challenges,
                                              pr.w_i_evals[i + 1][1],
                                              pr.w_i_evals[i + 1][2]),
                                  sub_claim, st1)
                 ELSE VerifyLoop(c, pr, i + 1, new_add, new_mul, last_challenges, st1)
             Check(sub_claim) ==
                 IF ~sub_claim.ok THEN [verdict |-> "abort"]
                 ELSE Round(sub_claim,
                            [curr_challenges |-> sub_claim.challenges, last_idx |-> i,
                             current_claimed_sum |-> sub_claim.last_claimed_sum])
         IN Check(psc_verify(pr.p_proofs[i + 1]))

\* what both verifiers do before the loop: r_a and the first add/mul tables
VerifyStart(c, pr) ==
    IF Len(c.layers) = 0 THEN [verdict |-> "abort"]
    ELSE
    LET r_a == verifier_r_a(pr.output_layer)
        am == layer_i_add_mul(c, Len(c.layers))
        new_add == partial_evaluate(am[1], r_a, 0)
        new_mul == partial_evaluate(am[2], r_a, 0)
    IN VerifyLoop(c, pr, 0, new_add, new_mul, <<>>,
                  [curr_challenges |-> <<>>, last_idx |-> 0, current_claimed_sum |-> 0])

\* the final oracle check; trick_challenges is what the verifier hands gkr_trick
FinalCheck(c, run, trick_challenges, input_eval_b, input_eval_c) ==
    LET layer_i == Len(c.layers) - run.last_idx
        Verdict(oracle_check) ==
            IF oracle_check = -1 THEN "abort"
            ELSE IF oracle_check = run.current_claimed_sum THEN "accept"
            ELSE "reject"
        Oracle(trick) ==
            IF trick[1] = Abort \/ trick[2] = Abort THEN "abort"
            ELSE Verdict(OracleValue(trick[1], trick[2], run.curr_challenges,
                                     input_eval_b, input_eval_c))
    IN IF layer_i < 1 \/ layer_i > Len(c.layers) THEN "abort"
       ELSE Oracle(gkr_trick(c, trick_challenges, layer_i))

\* Circuit::verify (gkr_sum_check.rs)
gkr_verify(c, pr) ==
    IF ~IsPow2(Len(pr.output_layer)) \/ Len(pr.output_layer) < 2 THEN "abort"
    ELSE
    LET Final(run, input_eval_b, input_eval_c) ==
            IF input_eval_b = Abort \/ input_eval_c = Abort THEN "abort"
            ELSE FinalCheck(c, run, run.curr_challenges,
                            input_eval_b[1], input_eval_c[1])
        Inputs(run) ==
            IF run.verdict # "continue" THEN run.verdict
            ELSE IF ~IsPow2(Len(c.inputs)) THEN "abort"
            ELSE LET mid == Len(run.curr_challenges) \div 2
                 IN Final(run, evaluate(c.inputs, Take(run.curr_challenges, mid)),
                          evaluate(c.inputs, Drop(run.curr_challenges, mid)))
    IN Inputs(VerifyStart(c, pr))

\* Circuit::succinct_verify (gkr/succinct_gkr.rs)
succinct_verify(c, pr, encrypted_basis_g2) ==
    LET Openings(run) ==
            IF run.verdict # "continue" THEN run.verdict
            ELSE IF Len(pr.w_i_evals) = 0 THEN "abort"        \* last().unwrap()
            ELSE
            LET mid == Len(run.curr_challenges) \div 2
                r_b_challenges == Take(run.curr_challenges, mid)
                r_c_challenges == Drop(run.curr_challenges, mid)
                input_eval_b == pr.w_i_evals[Len(pr.w_i_evals)][1]
                input_eval_c == pr.w_i_evals[Len(pr.w_i_evals)][2]
                n == Len(encrypted_basis_g2)
            IN IF Len(pr.quotient_evals_rb) < n \/ Len(r_b_challenges) < n THEN "abort"
               ELSE IF pairing(FSub(pr.commitment, input_eval_b), 1)
                       # PairingSum(pr.quotient_evals_rb, encrypted_basis_g2,
                                    r_b_challenges)
               THEN "reject"
               ELSE IF Len(pr.quotient_evals_rc) < n \/ Len(r_c_challenges) < n
               THEN "abort"
               ELSE IF pairing(FSub(pr.commitment, input_eval_c), 1)
                       # PairingSum(pr.quotient_evals_rc, encrypted_basis_g2,
                                    r_c_challenges)
               THEN "reject"
               ELSE FinalCheck(c, run, run.last_challenges, input_eval_b, input_eval_c)
    IN Openings(VerifyStart(c, pr))

-----------------------------------------------------------------------------
(* GKR runs: an honest prover, an optional change of one round-polynomial  *)
(* sample, then the verifier.  proto is "succinct" or "plain".             *)

MaxSalt == 2
Salts == 0 .. MaxSalt

\* the values of proof and sub before the prover has run
NoProof == [ok |-> FALSE]
NoSub == [kind |-> "none"]

\* the circuit of gkr_sum_check.rs test_gkr_proof with the given inputs
E4Circuit(inputs) ==
    [inputs |-> inputs,
     layers |-> << << Gate(0, 1, "Add", 0), Gate(2, 3, "Mul", 1),
                      Gate(4, 5, "Mul", 2), Gate(6, 7, "Mul", 3) >>,
                   << Gate(0, 1, "Add", 0), Gate(2, 3, "Mul", 1) >>,
                   << Gate(0, 1, "Add", 0) >> >>]

\* two layers over four inputs
TwoLayerCircuit ==
    [inputs |-> <<2, 3, 4, 5>>,
     layers |-> << << Gate(0, 1, "Mul", 0), Gate(2, 3, "Add", 1) >>,
                   << Gate(0, 1, "Mul", 0) >> >>]

\* a single layer with a single gate
OneLayerCircuit ==
    [inputs |-> <<3, 4>>, layers |-> << << Gate(0, 1, "Add", 0) >> >>]

\* a single layer with four outputs
FourOutputCircuit ==
    [inputs |-> <<1, 2, 3, 4, 5, 6, 7, 8>>,
     layers |-> << << Gate(0, 1, "Add", 0), Gate(2, 3, "Mul", 1),
                      Gate(4, 5, "Add", 2), Gate(6, 7, "Mul", 3) >> >>]

\* a first layer of three gates (not a power of two)
ThreeGateCircuit ==
    [inputs |-> <<1, 2, 3, 4, 5, 6, 7, 8>>,
     layers |-> << << Gate(0, 1, "Add", 0), Gate(2, 3, "Mul", 1),
                      Gate(4, 5, "Mul", 2) >>,
                   << Gate(0, 1, "Add", 0), Gate(1, 2, "Mul", 1) >>,
                   << Gate(0, 1, "Add", 0) >> >>]

E4Inputs == { <<1, 2, 3, 4, 5, 6, 7, 8>>, <<0, 16, 5, 0, 9, 9, 1, 12>> }

\* each circuit with a trusted setup of one tau per input variable
GkrInputs ==
    {[c |-> E4Circuit(i), taus |-> <<5, 2, 3>>] : i \in E4Inputs}
    \cup {[c |-> TwoLayerCircuit, taus |-> <<5, 2>>],
          [c |-> OneLayerCircuit, taus |-> <<5>>],
          [c |-> FourOutputCircuit, taus |-> <<5, 2, 3>>],
          [c |-> ThreeGateCircuit, taus |-> <<5, 2, 3>>]}

IsE4Shape(c) == c.layers = E4Circuit(c.inputs).layers /\ Len(c.inputs) = 8

InitGKR ==
    /\ proto \in {"succinct", "plain"}
    /\ salt \in Salts
    /\ input \in GkrInputs
    /\ proof = NoProof /\ honest = NoProof /\ result = "none" /\ sub = NoSub
    /\ pc = "init"

\* the proof of the run's protocol: succinct_proof or proof when delta is 0,
\* the same steps with a false output layer otherwise
GkrProofOf(succinct, c, taus, delta) ==
    LET Openings(gkr_part) ==
            IF succinct THEN SuccinctOpenings(c, initialize(taus).g1_arr, gkr_part)
            ELSE gkr_part
    IN Openings(GkrProveSending(c, succinct, delta))

\* the prover runs; a panic in the prover ends the run
GkrProveStep ==
    /\ pc = "init"
    /\ \E pr \in {GkrProofOf(proto = "succinct", input.c, input.taus, 0)} :
          /\ proof' = pr
          /\ honest' = pr
          /\ pc' = IF pr.ok THEN "proved" ELSE "aborted"
          /\ result' = IF pr.ok THEN "none" ELSE "abort"
    /\ UNCHANGED <<proto, salt, input, sub>>

\* the deltas added to the sample that is changed
TamperDeltas == {1, 8}

\* proof pr with sample k of round r of sum-check proof i moved by d
TamperRoundPoly(pr, i, r, k, d) ==
    [pr EXCEPT !.p_proofs[i].round_polys[r][k] = FAdd(@, d)]

GkrTamperStep ==
    /\ pc = "proved"
    /\ \E i \in 1 .. Len(proof.p_proofs) :
        \E r \in 1 .. Len(proof.p_proofs[i].round_polys) :
         \E k \in 1 .. Len(proof.p_proofs[i].round_polys[r]) :
          \E d \in TamperDeltas :
            /\ proof' = TamperRoundPoly(proof, i, r, k, d)
            /\ sub' = [kind |-> "round_poly", proof_idx |-> i, round |-> r, sample |-> k]
    /\ pc' = "tampered"
    /\ UNCHANGED <<proto, salt, input, honest, result>>

\* what a lying prover adds to the first entry of the output layer
ForgeDeltas == {1, 8}

\* a prover that sends an output layer that is not the circuit's: it runs
\* the steps of the source on the true W_0 with the challenges that the
\* table it sends gives
GkrForgeStep ==
    /\ pc = "init"
    /\ \E d \in ForgeDeltas :
        \E pr \in {GkrProofOf(proto = "succinct", input.c, input.taus, d)} :
          /\ proof' = pr
          /\ sub' = [kind |-> "forged_output", delta |-> d]
          /\ pc' = IF pr.ok THEN "forged" ELSE "aborted_forged"
          /\ result' = IF pr.ok THEN "none" ELSE "abort"
    /\ UNCHANGED <<proto, salt, input, honest>>

GkrVerifyStep ==
    /\ pc \in {"proved", "tampered", "forged"}
    /\ result' = IF proto = "succinct"
                 THEN succinct_verify(input.c, proof, initialize(input.taus).g2_arr)
                 ELSE gkr_verify(input.c, proof)
    /\ pc' = IF pc = "forged" THEN "verified_forged" ELSE "verified"
    /\ UNCHANGED <<proto, salt, input, proof, honest, sub>>

NextGKR == GkrProveStep \/ GkrTamperStep \/ GkrForgeStep \/ GkrVerifyStep

SpecGKR == InitGKR /\ [][NextGKR]_vars

\* the run is over and the proof the verifier saw is the prover's own
HonestRunDone == pc \in {"verified", "aborted"} /\ proof = honest

\* the verifier has run on a proof that differs from the prover's
TamperedRunDone == pc = "verified" /\ proof # honest

\* C1: succinct GKR is complete for every circuit of the data model: the
\* honest succinct proof is accepted and neither side aborts, whatever the
\* depth, the number of outputs or the gate counts of the layers.
C1_SuccinctCompleteness ==
    (proto = "succinct" /\ HonestRunDone) => result = "accept"

\* C2: plain GKR is complete on the circuit shape of scenario E4 (8 inputs,
\* layers of 4, 2 and 1 gates): Circuit::verify accepts Circuit::proof().
C2_PlainCompletenessE4 ==
    (proto = "plain" /\ IsE4Shape(input.c) /\ HonestRunDone) => result = "accept"

\* C7: after one sample of one sum-check round polynomial of an honest GKR
\* proof is changed, the verifier returns reject: it neither accepts nor aborts.
C7_TamperedRoundPolyRejected ==
    TamperedRunDone => result = "reject"

\* the succinct prover has produced a proof, so proof.output_layer is the
\* padded W_0 that both sides absorb
SuccinctProofMade == proto = "succinct" /\ pc \in {"proved", "tampered", "verified"}

\* C18: for every circuit the succinct verifier derives from the absorbed
\* padded output layer the same r_a vector as the prover, one challenge per
\* variable of the output layer (log2 of the padded output length).
C18_RaAgreement ==
    SuccinctProofMade =>
        /\ <<verifier_r_a(proof.output_layer)>> = prover_r_a(proof.output_layer, TRUE)
        /\ Len(prover_r_a(proof.output_layer, TRUE)) = ILog2(Len(proof.output_layer))

\* with an output layer of one variable the two sides derive the same r_a
C18_RaAgreementOneVariable ==
    (SuccinctProofMade /\ Len(proof.output_layer) = 2) =>
        <<verifier_r_a(proof.output_layer)>> = prover_r_a(proof.output_layer, TRUE)

\* transcript state t holds the given bytes as its first absorbed data
AbsorbedFirst(t, bytes) ==
    Len(t) >= Len(bytes) /\ SubSeq(t, 1, Len(bytes)) = bytes

\* the prover has run a layer loop iteration, so it has called
\* new_claimed_sum and gkr_trick at least once
TrickUsed == pc \in {"proved", "tampered", "verified"} /\ Len(input.c.layers) >= 2

\* C19: a GKR run uses one transcript: it absorbs the padded W_0 first, and
\* alpha and beta of every 2-to-1 step are squeezed from that transcript, so
\* they depend on the absorbed W_0.
C19_TrickOnRunTranscript ==
    TrickUsed => AbsorbedFirst(trick_transcript, to_bytes(honest.output_layer))

\* alpha and beta are the first two squeezes of an empty transcript in every run
C19_TrickScalarsFixed ==
    TrickUsed => /\ trick_alpha = squeezeOut(TranscriptNew)
                 /\ trick_beta = squeezeOut(squeezeState(TranscriptNew))
                 /\ trick_transcript # absorb(TranscriptNew, to_bytes(honest.output_layer))

\* a verifier has run on the proof of the current state
GkrVerified == pc \in {"verified", "verified_forged"}

\* the first sum-check proof starts from the MLE of proof.output_layer at the
\* r_a the verifier derives
FirstClaimBound(pr) ==
    LET w_0_eval == evaluate(pr.output_layer, <<verifier_r_a(pr.output_layer)>>)
    IN w_0_eval # Abort /\ pr.p_proofs[1].init_claimed_sum = w_0_eval[1]

\* every later sum-check proof starts from alpha * w_i(r_b) + beta * w_i(r_c)
\* of the previous layer's entry of w_i_evals
LaterClaimsBound(pr) ==
    \A i \in 2 .. Len(pr.p_proofs) :
        pr.p_proofs[i].init_claimed_sum =
            FAdd(FMul(trick_alpha, pr.w_i_evals[i - 1][1]),
                 FMul(trick_beta, pr.w_i_evals[i - 1][2]))

\* the padded output of the circuit of the current state
TrueOutputLayer == pad_w_0(circuit_evaluate(input.c)[Len(input.c.layers) + 1])

\* C22: a GKR verifier accepts a proof only if every sum-check proof in it
\* starts from the claim the verifier itself derives: the first from the MLE
\* of proof.output_layer at r_a, each later one from the previous entry of
\* w_i_evals; a proof whose output_layer is not the circuit's true padded
\* output is never accepted.
C22_ClaimedSumBinding ==
    (GkrVerified /\ result = "accept") =>
        /\ FirstClaimBound(proof)
        /\ LaterClaimsBound(proof)
        /\ proof.output_layer = TrueOutputLayer

\* a proof with a false output layer is never accepted
C22_FalseOutputNotAccepted ==
    (GkrVerified /\ proof.output_layer # TrueOutputLayer) => result # "accept"

\* the proofs of the prover of the source start from the derived claims
C22_HonestClaimsBound ==
    (pc = "verified" /\ proof = honest /\ result = "accept") =>
        FirstClaimBound(proof) /\ LaterClaimsBound(proof)

\* in every accepted proof the later sum-check proofs start from w_i_evals
C22_LaterClaimsBoundWhenAccepted ==
    (GkrVerified /\ result = "accept") => LaterClaimsBound(proof)

\* the verifier's single r_a is the first of the prover's challenges
C18_VerifierRaIsFirst ==
    SuccinctProofMade =>
        verifier_r_a(proof.output_layer) = prover_r_a(proof.output_layer, TRUE)[1]

-----------------------------------------------------------------------------
(* Single-polynomial sum-check with Fiat-Shamir (polynomials/src/          *)
(* fiat_shamir.rs): proof and verify.                                      *)

\* the challenge read from the squeezed digest (MultiLinearPoly::from_bytes
\* of the digest, first element)
from_bytes(t) == FieldOfDigest(t)

\* a wrong round polynomial: the two half sums in the wrong order
HalfSumsSwapped(poly) ==
    LET half_len == Len(poly) \div 2
    IN <<SumSeq(Drop(poly, half_len)), SumSeq(Take(poly, half_len))>>

\* the sum polynomial of a round: [sum of the left half, sum of the right half]
HalfSums(poly) ==
    LET half_len == Len(poly) \div 2
    IN <<SumSeq(Take(poly, half_len)), SumSeq(Drop(poly, half_len))>>

RECURSIVE FsProofLoop(_, _, _)
FsProofLoop(poly, t, sum_polys) ==
    IF poly = Abort THEN [ok |-> FALSE]
    ELSE IF Len(poly) <= 1 THEN [ok |-> TRUE, sum_polys |-> sum_polys]
    ELSE LET claimed_sum == SumSeq(poly)
             sum_poly == HalfSums(poly)
             t1 == absorb(absorb(t, to_bytes(<<claimed_sum>>)), to_bytes(sum_poly))
             challenge == from_bytes(t1)
         IN FsProofLoop(partial_evaluate(poly, challenge, 0), squeezeState(t1),
                        Append(sum_polys, sum_poly))

fs_proof(poly, init_claimed_sum) ==
    LET run == FsProofLoop(poly, absorb(TranscriptNew, to_bytes(poly)), <<>>)
    IN IF ~run.ok THEN [ok |-> FALSE]
       ELSE [ok |-> TRUE, init_poly |-> poly, init_claimed_sum |-> init_claimed_sum,
             sum_polys |-> run.sum_polys]

\* the loop of verify; verdict "continue" means every round passed
RECURSIVE FsVerifyLoop(_, _, _, _, _)
FsVerifyLoop(sum_polys, i, t, claimed_sum, challenges) ==
    IF i > Len(sum_polys)
    THEN [verdict |-> "continue", claimed_sum |-> claimed_sum, challenges |-> challenges]
    ELSE LET sum_poly == sum_polys[i]
         IN IF claimed_sum # SumSeq(sum_poly) THEN [verdict |-> "reject"]
            ELSE IF Len(sum_poly) < 2 THEN [verdict |-> "abort"]
            ELSE LET t1 == absorb(absorb(t, to_bytes(<<claimed_sum>>)),
                                  to_bytes(sum_poly))
                     challenge == from_bytes(t1)
                 IN FsVerifyLoop(sum_polys, i + 1, squeezeState(t1),
                                 FAdd(sum_poly[1],
                                      FMul(FSub(sum_poly[2], sum_poly[1]), challenge)),
                                 Append(challenges, challenge))

\* verify: the verdict, with the challenges and the last claimed sum it held
fs_verify(pr) ==
    IF pr.init_claimed_sum # SumSeq(pr.init_poly) THEN [verdict |-> "reject"]
    ELSE LET run == FsVerifyLoop(pr.sum_polys, 1,
                                 absorb(TranscriptNew, to_bytes(pr.init_poly)),
                                 pr.init_claimed_sum, <<>>)
         IN IF run.verdict # "continue" THEN run
            ELSE LET final_eval == evaluate(pr.init_poly, run.challenges)
                 IN IF final_eval = Abort THEN [verdict |-> "abort"]
                    ELSE [verdict |-> IF final_eval[1] = run.claimed_sum
                                      THEN "accept" ELSE "reject",
                          claimed_sum |-> run.claimed_sum,
                          challenges |-> run.challenges]

-----------------------------------------------------------------------------
(* Non-interactive sum-check (fiat_shamir_non_interactive/): ProverStruct  *)
(* and VerifierStruct.  Its transcript's challenge() reads the digest and  *)
(* leaves the hash state as it was.                                        *)

append(t, bytes) == t \o bytes
challenge(t) == FieldOfDigest(t)

\* the loop of generate_proof.  bias is what a cheating prover adds to the
\* left sample of round forge_round (rounds count from 1); the honest
\* prover has forge_round = 0
RECURSIVE NiProofLoop(_, _, _, _, _, _)
NiProofLoop(current_poly_ml, t, claimed_sums, sum_polys, forge_round, bias) ==
    IF current_poly_ml = Abort THEN [ok |-> FALSE]
    ELSE IF Len(current_poly_ml) <= 1
    THEN [ok |-> TRUE, claimed_sums |-> claimed_sums, sum_polys |-> sum_polys]
    ELSE LET forged == Len(sum_polys) + 1 = forge_round
             honest_sum_poly == HalfSums(current_poly_ml)
             sum_poly == IF forged
                         THEN <<FAdd(honest_sum_poly[1], bias), honest_sum_poly[2]>>
                         ELSE honest_sum_poly
             claimed_sum == IF forged THEN SumSeq(sum_poly)
                            ELSE SumSeq(current_poly_ml)
             t1 == append(append(t, to_bytes(<<claimed_sum>>)), to_bytes(sum_poly))
         IN NiProofLoop(partial_evaluate(current_poly_ml, challenge(t1), 0), t1,
                        Append(claimed_sums, claimed_sum),
                        Append(sum_polys, sum_poly), forge_round, bias)

\* ProverStruct::generate_proof followed by get_proof
generate_proof(bh_computation) ==
    IF ~IsPow2(Len(bh_computation)) THEN [ok |-> FALSE]
    ELSE NiProofLoop(bh_computation, append(TranscriptNew, to_bytes(bh_computation)),
                     <<>>, <<>>, 0, 0)

\* the proof of a prover that misstates round forge_round and goes on honestly
forged_proof(bh_computation, forge_round, bias) ==
    NiProofLoop(bh_computation, append(TranscriptNew, to_bytes(bh_computation)),
                <<>>, <<>>, forge_round, bias)

\* VerifierStruct::check_proof: the challenges and final_eval_poly it leaves
\* in self; a mismatch returns early with what was gathered so far
RECURSIVE CheckProofLoop(_, _, _, _, _)
CheckProofLoop(pr, i, t, challenges, final_eval_poly) ==
    IF i > Len(pr.sum_polys)
    THEN [ok |-> TRUE, challenges |-> challenges, final_eval_poly |-> final_eval_poly]
    ELSE IF i > Len(pr.claimed_sums) THEN [ok |-> FALSE]       \* index out of bounds
    ELSE IF SumSeq(pr.sum_polys[i]) # pr.claimed_sums[i]
    THEN [ok |-> TRUE, challenges |-> challenges, final_eval_poly |-> final_eval_poly]
    ELSE LET t1 == append(append(t, to_bytes(<<pr.claimed_sums[i]>>)),
                          to_bytes(pr.sum_polys[i]))
         IN CheckProofLoop(pr, i + 1, t1, Append(challenges, challenge(t1)),
                           pr.sum_polys[i])

check_proof(bh_computation, pr) ==
    CheckProofLoop(pr, 1, append(TranscriptNew, to_bytes(bh_computation)), <<>>, <<>>)

\* VerifierStruct::verify_proof
verify_proof(bh_computation, pr) ==
    LET self == check_proof(bh_computation, pr)
    IN IF ~self.ok THEN [verdict |-> "abort"]
       ELSE IF ~IsPow2(Len(self.final_eval_poly)) \/ Len(self.challenges) = 0
       THEN [verdict |-> "abort"]
       ELSE LET final_eval_at_challenge ==
                    partial_evaluate(self.final_eval_poly,
                                     self.challenges[Len(self.challenges)], 0)
                full_evaluation == evaluate(bh_computation, self.challenges)
            IN IF final_eval_at_challenge = Abort \/ full_evaluation = Abort
               THEN [verdict |-> "abort"]
               ELSE [verdict |-> IF final_eval_at_challenge = <<full_evaluation[1]>>
                                 THEN "accept" ELSE "reject",
                     challenges |-> self.challenges]

-----------------------------------------------------------------------------
(* Sum-check runs.  proto is "psc" (gkr/partial_sum_check.rs), "fs"        *)
(* (polynomials/src/fiat_shamir.rs) or "ni" (fiat_shamir_non_interactive). *)

\* the table of scenario E1 (2a + 3b ... over four variables)
E1Table == <<0, 0, 0, 0, 0, 4, 0, 4, 0, 0, 3, 3, 5, 9, 8, 12>>

MaxVars == 2

\* multilinear tables over v variables the runs draw from
TablePool(v) ==
    IF v = 1 THEN {<<1, 2>>, <<0, 3>>}
    ELSE IF v = 2 THEN {<<1, 2, 3, 4>>, <<0, 0, 0, 2>>, <<7, 0, 16, 5>>}
    ELSE IF v = 3 THEN {<<1, 2, 3, 4, 5, 6, 7, 8>>, <<0, 4, 0, 4, 0, 4, 3, 7>>}
    ELSE {E1Table}

\* product terms over v variables: two factors, or three
TermPool(v) ==
    {<<a, b>> : a \in TablePool(v), b \in TablePool(v)}
    \cup {<<a, a, a>> : a \in TablePool(v)}

\* one or two terms of the same degree over the same variables
TermLists(v) ==
    {<<x>> : x \in TermPool(v)}
    \cup {xy \in TermPool(v) \X TermPool(v) : Len(xy[1]) = Len(xy[2])}

ScInputs ==
    UNION {{[terms |-> x] : x \in TermLists(v)} : v \in 1 .. MaxVars}

TableInputs ==
    UNION {{[table |-> x] : x \in TablePool(v)} : v \in 1 .. (MaxVars + 2)}

\* the sum over the hypercube of the sum over terms of the product of factors
TrueSum(terms) ==
    SumSeq([k \in 1 .. Len(terms) |-> SumSeq(pp_reduce(terms[k]))])

\* the sum over terms of the product of the factors evaluated at a point
TermsAt(terms, point) ==
    SumSeq([k \in 1 .. Len(terms) |->
        LET vals == collect([j \in 1 .. Len(terms[k]) |->
                                <<evaluate(terms[k][j], point)[1]>>])
        IN ProdAt(vals, 1, 1)])

\* round r sums to the running claim, and the next claim is the round
\* polynomial at the challenge of round r
RECURSIVE ChainHolds(_, _, _, _)
ChainHolds(polys, r, claim, challenges) ==
    IF r > Len(polys) THEN TRUE
    ELSE LET g == polys[r]
             xs == collect([i \in 1 .. Len(g) |-> i - 1])
         IN /\ Len(g) >= 2
            /\ FAdd(g[1], g[2]) = claim
            /\ r <= Len(challenges)
            /\ ChainHolds(polys, r + 1,
                          uni_evaluate(interpolate(xs, g), challenges[r]), challenges)

Init ==
    /\ proto \in {"psc", "fs", "ni"}
    /\ salt \in Salts
    /\ input \in IF proto = "psc" THEN ScInputs ELSE TableInputs
    /\ proof = NoProof /\ honest = NoProof /\ result = "none" /\ sub = NoSub
    /\ pc = "init"

ScProve ==
    /\ pc = "init"
    /\ LET pr == IF proto = "psc" THEN psc_proof(input.terms, TrueSum(input.terms))
                 ELSE IF proto = "fs" THEN fs_proof(input.table, SumSeq(input.table))
                 ELSE generate_proof(input.table)
       IN /\ proof' = pr
          /\ honest' = pr
          /\ pc' = IF pr.ok THEN "proved" ELSE "aborted"
          /\ result' = IF pr.ok THEN "none" ELSE "abort"
    /\ UNCHANGED <<proto, salt, input, sub>>

ScDeltas == {1, 5}

\* the round polynomials of a proof, whatever the protocol calls them
RoundPolys(pr) == IF proto = "psc" THEN pr.round_polys ELSE pr.sum_polys

\* one sample of one round polynomial is changed in the finished proof
ScTamperSample ==
    /\ pc = "proved"
    /\ \E r \in 1 .. Len(RoundPolys(proof)) :
        \E k \in 1 .. Len(RoundPolys(proof)[r]) :
         \E d \in ScDeltas :
            proof' = IF proto = "psc"
                     THEN [proof EXCEPT !.round_polys[r][k] = FAdd(@, d)]
                     ELSE [proof EXCEPT !.sum_polys[r][k] = FAdd(@, d)]
    /\ pc' = "tampered"
    /\ UNCHANGED <<proto, salt, input, honest, result, sub>>

\* the claimed sum the proof opens with is changed
ScTamperClaim ==
    /\ pc = "proved"
    /\ \E d \in ScDeltas :
         proof' = IF proto = "ni"
                  THEN [proof EXCEPT !.claimed_sums[1] = FAdd(@, d)]
                  ELSE [proof EXCEPT !.init_claimed_sum = FAdd(@, d)]
    /\ pc' = "tampered"
    /\ UNCHANGED <<proto, salt, input, honest, result, sub>>

\* a cheating non-interactive prover misstates one round and goes on honestly
ScForge ==
    /\ pc = "proved" /\ proto = "ni"
    /\ \E r \in 1 .. Len(proof.sum_polys) : \E d \in ScDeltas :
         proof' = forged_proof(input.table, r, d)
    /\ pc' = "tampered"
    /\ UNCHANGED <<proto, salt, input, honest, result, sub>>

\* what the run of the verifier leaves: its verdict and, when it went
\* through, its challenges, its last claim, the oracle value at the
\* challenges and whether the rounds chain
ScOutcome ==
    IF proto = "psc"
    THEN LET sc == psc_verify(proof)
         IN IF ~sc.ok THEN [verdict |-> "abort"]
            ELSE [verdict |-> "accept", challenges |-> sc.challenges,
                  last_claimed_sum |-> sc.last_claimed_sum,
                  oracle |-> TermsAt(input.terms, sc.challenges),
                  chained |-> ChainHolds(proof.round_polys, 1,
                                         proof.init_claimed_sum, sc.challenges)]
    ELSE IF proto = "fs"
    THEN LET v == fs_verify(proof)
         IN IF v.verdict \in {"abort", "reject"} /\ DOMAIN v = {"verdict"} THEN v
            ELSE [verdict |-> v.verdict, challenges |-> v.challenges,
                  last_claimed_sum |-> v.claimed_sum,
                  oracle |-> evaluate(input.table, v.challenges)[1],
                  chained |-> ChainHolds(proof.sum_polys, 1,
                                         proof.init_claimed_sum, v.challenges)]
    ELSE LET v == verify_proof(input.table, proof)
         IN IF v.verdict = "abort" THEN v
            ELSE [verdict |-> v.verdict, challenges |-> v.challenges,
                  chained |-> ChainHolds(proof.sum_polys, 1,
                                         proof.claimed_sums[1], v.challenges)]

ScVerify ==
    /\ pc \in {"proved", "tampered"}
    /\ LET out == ScOutcome
       IN /\ result' = out.verdict
          /\ sub' = out
    /\ pc' = "verified"
    /\ UNCHANGED <<proto, salt, input, proof, honest>>

Next == ScProve \/ ScTamperSample \/ ScTamperClaim \/ ScForge \/ ScVerify

Spec == Init /\ [][Next]_vars

\* C5: single-polynomial sum-check round trip (fiat_shamir.rs): for a table
\* of 2^v entries and its true sum, the proof holds exactly v round
\* polynomials, verify accepts, and the verifier's last claimed sum is the
\* table evaluated at the v challenges it derived.
C5_SumCheckRoundTrip ==
    (proto = "fs" /\ HonestRunDone) =>
        /\ result = "accept"
        /\ Len(proof.sum_polys) = variable_count(input.table)
        /\ Len(sub.challenges) = variable_count(input.table)
        /\ sub.last_claimed_sum = sub.oracle

\* an honest four-round run over the table of scenario E1 has been verified
C5_Witness ==
    proto = "fs" /\ pc = "verified" /\ proof = honest /\ input.table = E1Table

C10_AcceptedRoundsChain ==
    (pc = "verified" /\ result = "accept") => sub.chained

-----------------------------------------------------------------------------
(* KZG runs: proof(), an optional change of the opened value, verify().    *)

\* every point of F^v
RECURSIVE Points(_)
Points(v) ==
    IF v = 0 THEN {<<>>}
    ELSE {Append(pt, x) : pt \in Points(v - 1), x \in F}

\* the polynomial, opening point and tau of kzg_protocol.rs test_verify
E6Input ==
    [poly |-> <<0, 4, 0, 4, 0, 4, 3, 7>>, point |-> <<6, 4, 0>>, taus |-> <<5, 2, 3>>]

KzgInputs ==
    {[poly |-> t, point |-> pt, taus |-> <<5>>] :
        t \in {<<1, 2>>, <<0, 3>>, <<9, 9>>}, pt \in Points(1)}
    \cup {[poly |-> t, point |-> pt, taus |-> tau] :
            t \in TablePool(2), pt \in Points(2), tau \in {<<5, 2>>, <<0, 1>>}}
    \cup {E6Input}

InitKZG ==
    /\ proto = "kzg"
    /\ salt = 0
    /\ input \in KzgInputs
    /\ proof = NoProof /\ honest = NoProof /\ result = "none" /\ sub = NoSub
    /\ pc = "init"

KzgProve ==
    /\ pc = "init"
    /\ LET pr == kzg_proof(input.poly, initialize(input.taus).g1_arr, input.point)
       IN /\ proof' = pr
          /\ honest' = pr
          /\ pc' = IF pr.ok THEN "proved" ELSE "aborted"
          /\ result' = IF pr.ok THEN "none" ELSE "abort"
    /\ sub' = [kind |-> "kzg", value |-> evaluate(input.poly, input.point)[1]]
    /\ UNCHANGED <<proto, salt, input>>

KzgDeltas == {1, 8, 16}

\* the opened value is replaced; commitment and quotients stay the prover's
KzgTamperValue ==
    /\ pc = "proved"
    /\ \E d \in KzgDeltas : proof' = [proof EXCEPT !.poly_opened = FAdd(@, d)]
    /\ pc' = "tampered"
    /\ UNCHANGED <<proto, salt, input, honest, result, sub>>

\* the group elements appended to the quotient list
ExtraQuotients == {0, 7}

\* one more quotient than the prover made
KzgAppendQuotient ==
    /\ pc = "proved"
    /\ \E q \in ExtraQuotients :
          proof' = [proof EXCEPT !.quotient_evals = Append(@, q)]
    /\ pc' = "resized"
    /\ UNCHANGED <<proto, salt, input, honest, result, sub>>

\* the last quotient is left out
KzgDropQuotient ==
    /\ pc = "proved"
    /\ Len(proof.quotient_evals) >= 1
    /\ proof' = [proof EXCEPT !.quotient_evals = Take(@, Len(@) - 1)]
    /\ pc' = "resized"
    /\ UNCHANGED <<proto, salt, input, honest, result, sub>>

KzgVerify ==
    /\ pc \in {"proved", "tampered", "resized"}
    /\ result' = kzg_verify(proof, initialize(input.taus).g2_arr, input.point)
    /\ pc' = IF pc = "resized" THEN "verified_resized" ELSE "verified"
    /\ UNCHANGED <<proto, salt, input, proof, honest, sub>>

NextKZG ==
    KzgProve \/ KzgTamperValue \/ KzgAppendQuotient \/ KzgDropQuotient \/ KzgVerify

SpecKZG == InitKZG /\ [][NextKZG]_vars

\* C4: multilinear KZG: verify accepts the proof that proof() made, and with
\* the prover's commitment and quotients it accepts exactly when the opened
\* value is the polynomial evaluated at the opening point.
C4_KzgAcceptsIffValue ==
    /\ HonestRunDone => result = "accept"
    /\ pc = "verified" =>
         /\ proof.commitment = honest.commitment
         /\ proof.quotient_evals = honest.quotient_evals
         /\ (result = "accept" <=> proof.poly_opened = sub.value)

\* a changed opened value has been put to the verifier, three variables
C4_Witness ==
    /\ pc = "verified" /\ proof # honest /\ input = E6Input
    /\ proof.poly_opened # sub.value

\* C11: KZG verify rejects whenever the number of quotients in the proof
\* differs from the number of encrypted taus, be it fewer or more.
C11_QuotientCountRejects ==
    (pc = "verified_resized" /\ Len(proof.quotient_evals) # Len(input.taus))
    => result = "reject"

\* the part of C11 about missing quotients: verify does not accept
C11_FewerQuotientsNotAccepted ==
    (pc = "verified_resized" /\ Len(proof.quotient_evals) < Len(input.taus))
    => result # "accept"

-----------------------------------------------------------------------------
(* MerkleTree (merkle_tree.rs).                                            *)
(* A digest is modelled by the hashed bytes between two marks, so that     *)
(* the hash is injective and a concatenation of digests splits one way.    *)

HashOpen == -2
HashClose == -3

\* MerkleTree::hash
merkle_hash(data) == <<HashOpen>> \o data \o <<HashClose>>

\* the while loop of MerkleTree::new over one layer: pairs are hashed
\* together, an unpaired last node is hashed with itself
NextLayer(current_layer) ==
    collect([k \in 1 .. ((Len(current_layer) + 1) \div 2) |->
        LET i == 2 * (k - 1)
        IN IF i + 1 < Len(current_layer)
           THEN merkle_hash(current_layer[i + 1] \o current_layer[i + 2])
           ELSE merkle_hash(current_layer[i + 1] \o current_layer[i + 1])])

RECURSIVE LayersLoop(_)
LayersLoop(layers) ==
    IF Len(layers[Len(layers)]) > 1
    THEN LayersLoop(Append(layers, NextLayer(layers[Len(layers)])))
    ELSE layers

\* MerkleTree::new: the layers, leaves first
merkle_new(data) ==
    LET leaves == collect([k \in 1 .. Len(data) |-> merkle_hash(data[k])])
    IN IF leaves = <<>> THEN <<>> ELSE LayersLoop(<<leaves>>)

\* MerkleTree::root (the callers unwrap it: the trees are never empty)
merkle_root(layers) == layers[Len(layers)][1]

\* position of the first leaf with the hash of `leaf`, from 0; -1 for None
leaf_position(layers, leaf) ==
    LET hits == {k \in 1 .. Len(layers[1]) : layers[1][k] = merkle_hash(leaf)}
    IN IF hits = {} THEN -1
       ELSE (CHOOSE k \in hits : \A j \in hits : k <= j) - 1

\* the for loop of generate_proof: the sibling at each layer below the root
RECURSIVE SiblingsLoop(_, _, _, _)
SiblingsLoop(layers, l, current_index, siblings) ==
    IF l > Len(layers) - 1 THEN siblings
    ELSE LET layer == layers[l]
             sibling_index == IF current_index % 2 = 0 THEN current_index + 1
                              ELSE current_index - 1
             sibling_hash == IF sibling_index >= Len(layer)
                             THEN layer[current_index + 1]
                             ELSE layer[sibling_index + 1]
         IN SiblingsLoop(layers, l + 1, current_index \div 2,
                         Append(siblings, sibling_hash))

\* MerkleTree::generate_proof as the FRI prover uses it: the siblings as in
\* merkle_tree.rs, and with them the index at which the leaf was found
merkle_generate_proof(layers, leaf) ==
    LET index == leaf_position(layers, leaf)
    IN IF index = -1 THEN [ok |-> FALSE]
       ELSE [ok |-> TRUE, siblings |-> SiblingsLoop(layers, 1, index, <<>>),
             leaf_index |-> index]

\* a wrong loop: the running hash always goes on the left
RECURSIVE RecomputeLoopLeftOnly(_, _, _, _)
RecomputeLoopLeftOnly(siblings, k, current_hash, idx) ==
    IF k > Len(siblings) THEN current_hash
    ELSE RecomputeLoopLeftOnly(siblings, k + 1,
                               merkle_hash(current_hash \o siblings[k]), idx \div 2)

\* the for loop of verify_proof: the parity of idx gives the order
RECURSIVE RecomputeLoop(_, _, _, _)
RecomputeLoop(siblings, k, current_hash, idx) ==
    IF k > Len(siblings) THEN current_hash
    ELSE LET combined == IF idx % 2 = 0 THEN current_hash \o siblings[k]
                         ELSE siblings[k] \o current_hash
         IN RecomputeLoop(siblings, k + 1, merkle_hash(combined), idx \div 2)

\* MerkleTree::verify_proof as the FRI verifier calls it, with the root to
\* compare to: the path is recomputed from the leaf with the parity of the
\* index the proof holds
merkle_verify_proof(leaf_data, mproof, expected_root) ==
    RecomputeLoop(mproof.siblings, 1, merkle_hash(leaf_data), mproof.leaf_index)
        = expected_root

\* MerkleTree::generate_proof of merkle_tree.rs: self.layers[0] is read
\* before the emptiness test, which is a panic on a tree without layers
merkle_tree_generate_proof(layers, leaf) ==
    IF Len(layers) = 0 THEN [outcome |-> "abort"]
    ELSE LET index == leaf_position(layers, leaf)
         IN IF index = -1 THEN [outcome |-> "none"]
            ELSE [outcome |-> "some", siblings |-> SiblingsLoop(layers, 1, index, <<>>)]

\* MerkleTree::verify_proof of merkle_tree.rs: the leaf is looked up in the
\* tree and the path recomputed from its position
merkle_tree_verify_proof(layers, leaf_data, mproof) ==
    IF Len(layers) = 0 THEN "abort"
    ELSE LET current_index == leaf_position(layers, leaf_data)
         IN IF current_index = -1 THEN "false"
            ELSE IF RecomputeLoop(mproof.siblings, 1, merkle_hash(leaf_data),
                                  current_index) = merkle_root(layers)
            THEN "true" ELSE "false"

-----------------------------------------------------------------------------
(* FastFourierTransform (fft.rs).                                          *)

\* the generator of the 2-adic subgroup of the field: 3 has order 16 mod 17
TwoAdicRoot == 3
TwoAdicity == 4

\* F::get_root_of_unity(n): None (-1) unless n is a power of two that
\* divides the order of the 2-adic subgroup
get_root_of_unity(n) ==
    IF IsPow2(n) /\ ILog2(n) <= TwoAdicity
    THEN FPow(TwoAdicRoot, Pow2(TwoAdicity) \div n)
    ELSE -1

\* split_array: the entries at even and at odd indexes
split_array(coefficients) ==
    <<collect([k \in 1 .. ((Len(coefficients) + 1) \div 2) |-> coefficients[2 * k - 1]]),
      collect([k \in 1 .. (Len(coefficients) \div 2) |-> coefficients[2 * k]])>>

\* evaluate: coefficients to values on the powers of the n-th root of unity
RECURSIVE fft_evaluate(_)
fft_evaluate(coefficients) ==
    LET n == Len(coefficients)
        w == get_root_of_unity(n)
    IN IF ~IsPow2(n) \/ w = -1 THEN Abort
       ELSE IF n = 1 THEN coefficients
       ELSE LET y_even == fft_evaluate(split_array(coefficients)[1])
                y_odd == fft_evaluate(split_array(coefficients)[2])
            IN collect([k \in 1 .. n |->
                   LET i == (k - 1) % (n \div 2)
                       t == FMul(FPow(w, i), y_odd[i + 1])
                   IN IF k - 1 < n \div 2 THEN FAdd(y_even[i + 1], t)
                      ELSE FSub(y_even[i + 1], t)])

\* a wrong inverse root: the forward root itself
root_of_unity_not_inverted(n) == get_root_of_unity(n)

\* root_of_unity().inverse().unwrap()
inverse_root_of_unity(n) ==
    IF get_root_of_unity(n) = -1 THEN -1 ELSE FInv(get_root_of_unity(n))

\* the inverse butterfly (interpolate of polynomials/src/fft.rs and
\* interpolation of protocols/src/fft.rs): the same recursion with the
\* inverse root, not divided by n
RECURSIVE fft_interpolation(_)
fft_interpolation(values) ==
    LET n == Len(values)
        w == inverse_root_of_unity(n)
    IN IF ~IsPow2(n) \/ w = -1 THEN Abort
       ELSE IF n = 1 THEN values
       ELSE LET y_even == fft_interpolation(split_array(values)[1])
                y_odd == fft_interpolation(split_array(values)[2])
            IN collect([k \in 1 .. n |->
                   LET i == (k - 1) % (n \div 2)
                       t == FMul(FPow(w, i), y_odd[i + 1])
                   IN IF k - 1 < n \div 2 THEN FAdd(y_even[i + 1], t)
                      ELSE FSub(y_even[i + 1], t)])

\* interpolate of protocols/src/fft.rs: every entry divided by n
fft_interpolate(values) ==
    LET y == fft_interpolation(values)
    IN IF y = Abort THEN Abort
       ELSE collect([k \in 1 .. Len(y) |-> FDiv(y[k], Len(values) % P)])

-----------------------------------------------------------------------------
(* FRI (fri/fri_helper_functions.rs, fri/fri_protocol.rs,                  *)
(* fri/optimized_fri_protocol.rs).                                         *)

\* FRIProtocol::new
FRIProtocolNew(poly, blowup_factor) ==
    [poly |-> poly, blowup_factor |-> blowup_factor, max_degree |-> Len(poly) - 1]

\* the while loop of domain_size
RECURSIVE DomainLoop(_, _)
DomainLoop(size, min_size) ==
    IF size < min_size THEN DomainLoop(size * 2, min_size) ELSE size

domain_size(fri) == DomainLoop(1, (fri.max_degree + 1) * fri.blowup_factor)

\* Vec::resize(size, F::zero())
resize(v, size) == collect([k \in 1 .. size |-> IF k <= Len(v) THEN v[k] ELSE 0])

pad_to_power_of_two(fri) == resize(fri.poly, domain_size(fri))

split_poly(poly) ==
    <<collect([k \in 1 .. ((Len(poly) + 1) \div 2) |-> poly[2 * k - 1]]),
      collect([k \in 1 .. (Len(poly) \div 2) |-> poly[2 * k]])>>

\* even + r * odd, coefficient by coefficient (zip stops at the shorter)
fold_poly(poly, r_challenge) ==
    IF Len(poly) = 1 THEN <<poly[1]>>
    ELSE LET even == split_poly(poly)[1]
             odd == split_poly(poly)[2]
         IN collect([k \in 1 .. Len(odd) |-> FAdd(even[k], FMul(r_challenge, odd[k]))])

pad_poly_to_power_of_two(poly) ==
    IF ~IsPow2(Len(poly)) THEN Abort ELSE resize(poly, 2 * Len(poly))

\* F::to_string().as_bytes(): the decimal digits, as characters
to_string(v) == IF v < 10 THEN <<48 + v>> ELSE <<48 + (v \div 10), 48 + (v % 10)>>

\* poly_bytes: the leaves of a round's tree
poly_bytes(evals) == collect([k \in 1 .. Len(evals) |-> to_string(evals[k])])

\* the commit loop of generate_proof: one tree per round, the coefficients
\* folded with the challenge and evaluated again on a domain of half the size
RECURSIVE CommitLoop(_, _, _, _, _, _, _, _)
CommitLoop(f_poly, eval_poly, i, num_rounds, t, m_hashes, m_trees, all_evals) ==
    IF i = num_rounds
    THEN [ok |-> TRUE, t |-> t, m_hashes |-> m_hashes, m_trees |-> m_trees,
          all_evals |-> all_evals, final_poly |-> eval_poly]
    ELSE LET m_tree == merkle_new(poly_bytes(eval_poly))
             m_root == merkle_root(m_tree)
             t1 == absorb(t, m_root)
             r == squeezeOut(t1)
             t2 == squeezeState(t1)
         IN IF Len(f_poly) = 1
            THEN LET last == fold_poly(f_poly, r)
                 IN [ok |-> TRUE, t |-> t2, m_hashes |-> Append(m_hashes, m_root),
                     m_trees |-> Append(m_trees, m_tree),
                     all_evals |-> Append(all_evals, last), final_poly |-> last]
            ELSE LET folded == fold_poly(f_poly, r)
                     padded_poly == pad_poly_to_power_of_two(folded)
                     evals == fft_evaluate(padded_poly)
                 IN IF padded_poly = Abort \/ evals = Abort THEN [ok |-> FALSE]
                    ELSE CommitLoop(folded, evals, i + 1, num_rounds, t2,
                                    Append(m_hashes, m_root), Append(m_trees, m_tree),
                                    Append(all_evals, evals))

\* the fold of the values at x and -x, x = omega_i:
\* (f(x) + f(-x))/2 + r * (f(x) - f(-x))/(2x)
next_eval(f_x, f_neg_x, r, omega_i) ==
    LET sum_term == FMul(FAdd(f_x, f_neg_x), FInv(2))
        diff == FSub(f_x, f_neg_x)
        omega_i_doubled == FAdd(omega_i, omega_i)
        diff_term == FMul(diff, FInv(omega_i_doubled))
    IN FAdd(sum_term, FMul(r, diff_term))

\* the commit loop of optimized_proof: the evaluations themselves are folded
RECURSIVE OptimizedCommitLoop(_, _, _, _, _, _, _, _)
OptimizedCommitLoop(current_evals, current_primitive_root, round, num_rounds, t, m_hashes, m_trees, all_evals) ==
    IF round = num_rounds
    THEN [ok |-> TRUE, t |-> t, m_hashes |-> m_hashes, m_trees |-> m_trees,
          all_evals |-> all_evals, final_poly |-> current_evals]
    ELSE LET m_tree == merkle_new(poly_bytes(current_evals))
             m_root == merkle_root(m_tree)
             t1 == absorb(t, m_root)
             r == squeezeOut(t1)
             next_domain_size == Len(current_evals) \div 2
             next_evals == collect([k \in 1 .. next_domain_size |->
                 next_eval(current_evals[k], current_evals[k + next_domain_size],
                           r, FPow(current_primitive_root, k - 1))])
         IN OptimizedCommitLoop(next_evals, FMul(current_primitive_root, current_primitive_root),
                                round + 1, num_rounds, squeezeState(t1),
                                Append(m_hashes, m_root), Append(m_trees, m_tree),
                                Append(all_evals, next_evals))

\* the query loop of generate_proof and of optimized_proof: per round the
\* values and Merkle proofs at v_index and at its antipode, and from round 1
\* on the claimed value at verifier_index; v_index is halved every round.
\* Indexing past the end of a vector is a panic.
RECURSIVE QueryLoop(_, _, _, _, _, _, _, _)
QueryLoop(all_evals, m_trees, dsize, num_rounds, round, v_index, verifier_index, acc) ==
    IF round = num_rounds THEN acc
    ELSE IF round + 1 > Len(m_trees) \/ round + 1 > Len(all_evals) THEN [ok |-> FALSE]
    ELSE LET round_domain_size == dsize \div Pow2(round)
             half_domain_size == round_domain_size \div 2
             evals == all_evals[round + 1]
             at == v_index % round_domain_size
             neg == (v_index + half_domain_size) % round_domain_size
             claimed == verifier_index % round_domain_size
         IN IF at >= Len(evals) \/ neg >= Len(evals)
               \/ (round # 0 /\ claimed >= Len(evals))
            THEN [ok |-> FALSE]
            ELSE LET value_at_index == evals[at + 1]
                     proof_at_index ==
                         merkle_generate_proof(m_trees[round + 1], to_string(value_at_index))
                     value_at_neg_index == evals[neg + 1]
                     proof_at_neg_index ==
                         merkle_generate_proof(m_trees[round + 1], to_string(value_at_neg_index))
                 IN QueryLoop(all_evals, m_trees, dsize, num_rounds, round + 1,
                        v_index \div 2, verifier_index,
                        [ok |-> TRUE,
                         v_at_index |-> Append(acc.v_at_index, value_at_index),
                         v_at_neg_index |-> Append(acc.v_at_neg_index, value_at_neg_index),
                         p_at_index |-> Append(acc.p_at_index, proof_at_index),
                         p_at_neg_index |-> Append(acc.p_at_neg_index, proof_at_neg_index),
                         c_sums |-> IF round # 0 THEN Append(acc.c_sums, evals[claimed + 1])
                                    ELSE acc.c_sums])

\* the index the prover queries: the field element squeezed after the last
\* round, as an integer, modulo the number of coefficients
QueryIndex(fri, t) == squeezeOut(t) % Len(fri.poly)

\* the FRIProof made of the committed rounds and the openings at index q
FRIProofAt(dsize, num_rounds, committed, q) ==
    IF ~committed.ok THEN [ok |-> FALSE]
    ELSE LET opened == QueryLoop(committed.all_evals, committed.m_trees, dsize,
                           num_rounds, 0, q, q,
                           [ok |-> TRUE, v_at_index |-> <<>>, v_at_neg_index |-> <<>>,
                            p_at_index |-> <<>>, p_at_neg_index |-> <<>>, c_sums |-> <<>>])
         IN IF ~opened.ok THEN [ok |-> FALSE]
            ELSE [ok |-> TRUE,
                  root_hashes |-> committed.m_hashes,
                  final_poly |-> committed.final_poly,
                  values_at_index |-> opened.v_at_index,
                  values_at_neg_index |-> opened.v_at_neg_index,
                  merkle_trees |-> committed.m_trees,
                  proofs_at_index |-> opened.p_at_index,
                  proofs_at_neg_index |-> opened.p_at_neg_index,
                  claimed_sums |-> opened.c_sums]

\* the commit phase of generate_proof: all_evals, the trees and the
\* transcript as they are when the query index is squeezed
fri_committed(fri) ==
    LET eval_poly == fft_evaluate(pad_to_power_of_two(fri))
    IN IF eval_poly = Abort THEN [ok |-> FALSE]
       ELSE CommitLoop(fri.poly, eval_poly, 0, ILog2(Len(eval_poly)),
                       TranscriptNew, <<>>, <<>>, <<eval_poly>>)

\* the FRIProof of the source: the openings at the squeezed index
FRIProofOf(fri, dsize, num_rounds, committed) ==
    IF ~committed.ok THEN [ok |-> FALSE]
    ELSE FRIProofAt(dsize, num_rounds, committed, QueryIndex(fri, committed.t))

\* FRIProtocol::generate_proof
fri_generate_proof(fri) ==
    LET padded_poly == pad_to_power_of_two(fri)
        eval_poly == fft_evaluate(padded_poly)
    IN IF eval_poly = Abort THEN [ok |-> FALSE]
       ELSE FRIProofOf(fri, Len(padded_poly), ILog2(Len(eval_poly)),
                       fri_committed(fri))

\* the commit phase of optimized_proof
optimized_committed(fri) ==
    LET padded_poly == pad_to_power_of_two(fri)
        primitive_root == get_root_of_unity(Len(padded_poly))
        initial_evaluations == fft_evaluate(padded_poly)
    IN IF primitive_root = -1 \/ initial_evaluations = Abort THEN [ok |-> FALSE]
       ELSE OptimizedCommitLoop(initial_evaluations, primitive_root, 0,
                                ILog2(Len(padded_poly)), TranscriptNew, <<>>, <<>>,
                                <<initial_evaluations>>)

\* FRIProtocol::optimized_proof
optimized_proof(fri) ==
    LET padded_poly == pad_to_power_of_two(fri)
    IN FRIProofOf(fri, Len(padded_poly), ILog2(Len(padded_poly)),
                  optimized_committed(fri))

\* the two Merkle checks of round `index` (from 0) of verify
check_proof_i(pr, index) ==
    merkle_verify_proof(to_string(pr.values_at_index[index + 1]),
                        pr.proofs_at_index[index + 1], pr.root_hashes[index + 1])
check_proof_neg_i(pr, index) ==
    merkle_verify_proof(to_string(pr.values_at_neg_index[index + 1]),
                        pr.proofs_at_neg_index[index + 1], pr.root_hashes[index + 1])

\* what verify computes from the openings of round `index`
expected_next_eval(pr, index, r, primitive_root) ==
    LET f_x == pr.values_at_index[index + 1]
        f_neg_x == pr.values_at_neg_index[index + 1]
        omega_i == FPow(primitive_root, pr.proofs_at_index[index + 1].leaf_index)
        sum_term == FMul(FAdd(f_x, f_neg_x), FInv(2))
        diff == FSub(f_x, f_neg_x)
        omega_i_doubled == FAdd(omega_i, omega_i)
        diff_term == FMul(diff, FInv(omega_i_doubled))
    IN FAdd(sum_term, FMul(r, diff_term))

\* the rounds of verify: a round is given up only when both Merkle checks
\* fail; the last round is compared with final_poly[0]
RECURSIVE FriVerifyLoop(_, _, _, _)
FriVerifyLoop(pr, index, t, primitive_root) ==
    LET num_rounds == Len(pr.root_hashes)
        t1 == absorb(t, pr.root_hashes[index + 1])
        r == squeezeOut(t1)
        expected == expected_next_eval(pr, index, r, primitive_root)
    IN IF ~check_proof_i(pr, index) /\ ~check_proof_neg_i(pr, index) THEN "reject"
       ELSE IF index = num_rounds - 1
            THEN IF pr.final_poly[1] = expected THEN "accept" ELSE "reject"
       ELSE IF pr.claimed_sums[index + 1] # expected THEN "reject"
       ELSE FriVerifyLoop(pr, index + 1, squeezeState(t1),
                          FMul(primitive_root, primitive_root))

\* FRIProtocol::verify
fri_verify(pr) ==
    LET primitive_root == get_root_of_unity(Pow2(Len(pr.root_hashes)))
    IN IF primitive_root = -1 \/ pr.root_hashes = <<>> THEN "abort"
       ELSE FriVerifyLoop(pr, 0, TranscriptNew, primitive_root)

\* FRIProtocol::optimized_verify: the same checks on an OptimizedFRIProof
optimized_verify(pr) ==
    LET primitive_root == get_root_of_unity(Pow2(Len(pr.root_hashes)))
    IN IF primitive_root = -1 \/ pr.root_hashes = <<>> THEN "abort"
       ELSE FriVerifyLoop(pr, 0, TranscriptNew, primitive_root)

-----------------------------------------------------------------------------
(* FRI runs: generate_proof() or optimized_proof(), an optional change of  *)
(* the proof, verify() or optimized_verify().                              *)

FriProtos == {"fri", "optimized_fri"}

\* the coefficients of fri_protocol.rs test_fri_protocol_verify
E5Poly == <<1, 2, 3, 4>>

\* coefficient vectors of length 2, 4 and 8, blow-up factor 2
FriInputs ==
    {[poly |-> p, blowup_factor |-> 2] :
        p \in {<<a, b>> : a, b \in {0, 1, 5}}
              \cup {<<a, b, c, d>> : a, b, c, d \in {0, 3}}
              \cup {E5Poly, <<7, 0, 16, 2>>,
                    <<0, 0, 0, 0, 0, 1, 0, 0>>, <<1, 2, 3, 4, 5, 6, 7, 8>>,
                    <<3, 1, 4, 1, 5, 9, 2, 6>>, <<0, 0, 0, 0, 0, 0, 0, 1>>}}

InitFRI ==
    /\ proto \in FriProtos
    /\ salt \in Salts
    /\ input \in FriInputs
    /\ proof = NoProof /\ honest = NoProof /\ result = "none" /\ sub = NoSub
    /\ pc = "init"

FriProve ==
    /\ pc = "init"
    /\ LET fri == FRIProtocolNew(input.poly, input.blowup_factor)
           pr == IF proto = "fri" THEN fri_generate_proof(fri) ELSE optimized_proof(fri)
       IN /\ proof' = pr
          /\ honest' = pr
          /\ pc' = IF pr.ok THEN "proved" ELSE "aborted"
          /\ result' = IF pr.ok THEN "none" ELSE "abort"
    /\ UNCHANGED <<proto, salt, input, sub>>

\* a Merkle proof whose first sibling is not the tree's
BadPath(mproof) == [mproof EXCEPT !.siblings[1] = merkle_hash(@)]

\* the Merkle proof at x, at -x, or both, of one round are replaced
FriTamperMerkle ==
    /\ pc = "proved"
    /\ \E k \in 1 .. Len(proof.root_hashes), side \in {"index", "neg_index", "both"} :
         proof' = [proof EXCEPT
            !.proofs_at_index[k] = IF side = "neg_index" THEN @ ELSE BadPath(@),
            !.proofs_at_neg_index[k] = IF side = "index" THEN @ ELSE BadPath(@)]
    /\ pc' = "tampered"
    /\ UNCHANGED <<proto, salt, input, honest, result, sub>>

FriDeltas == 1 .. (P - 1)

\* final_poly[0] is replaced by another field element
FriTamperFinal ==
    /\ pc = "proved"
    /\ \E d \in FriDeltas : proof' = [proof EXCEPT !.final_poly[1] = FAdd(@, d)]
    /\ pc' = "tampered"
    /\ UNCHANGED <<proto, salt, input, honest, result, sub>>

\* one claimed_sums[k] is replaced by another field element
FriTamperClaim ==
    /\ pc = "proved"
    /\ \E k \in 1 .. Len(proof.claimed_sums), d \in FriDeltas :
         proof' = [proof EXCEPT !.claimed_sums[k] = FAdd(@, d)]
    /\ pc' = "tampered"
    /\ UNCHANGED <<proto, salt, input, honest, result, sub>>

\* a prover that opens every round from an index of its own choosing instead
\* of the squeezed one; the commit phase is that of the source
FriChooseQuery ==
    /\ pc = "init"
    /\ \E committed \in {IF proto = "fri"
                          THEN fri_committed(FRIProtocolNew(input.poly, input.blowup_factor))
                          ELSE optimized_committed(FRIProtocolNew(input.poly,
                                                                  input.blowup_factor))} :
        /\ committed.ok
        /\ \E q \in (0 .. (Len(input.poly) - 1))
                        \ {QueryIndex(FRIProtocolNew(input.poly, input.blowup_factor),
                                       committed.t)} :
            \E pr \in {FRIProofAt(Len(committed.all_evals[1]),
                                   ILog2(Len(committed.all_evals[1])), committed, q)} :
              /\ pr.ok
              /\ proof' = pr
              /\ sub' = [kind |-> "chosen_query", q |-> q]
    /\ pc' = "chosen"
    /\ UNCHANGED <<proto, salt, input, honest, result>>

\* verify; sub keeps, for every round, the outcome of the two Merkle checks
FriVerify ==
    /\ pc \in {"proved", "tampered", "chosen"}
    /\ result' = IF proto = "fri" THEN fri_verify(proof) ELSE optimized_verify(proof)
    /\ sub' = [kind |-> "fri",
               checks |-> collect([k \in 1 .. Len(proof.root_hashes) |->
                   <<check_proof_i(proof, k - 1), check_proof_neg_i(proof, k - 1)>>])]
    /\ pc' = IF pc = "chosen" THEN "verified_chosen" ELSE "verified"
    /\ UNCHANGED <<proto, salt, input, proof, honest>>

NextFRI ==
    \/ FriProve \/ FriTamperMerkle \/ FriTamperFinal \/ FriTamperClaim
    \/ FriChooseQuery \/ FriVerify

SpecFRI == InitFRI /\ [][NextFRI]_vars

\* C3: FRI completeness: for every coefficient vector of power-of-two length
\* at least 2, blow-up factor 2, and whatever index the transcript yields,
\* verify accepts what generate_proof made and optimized_verify accepts what
\* optimized_proof made.
C3_FriCompleteness ==
    (HonestRunDone /\ proto \in FriProtos) => result = "accept"

\* C8: FRI Merkle rejection: verify and optimized_verify return false when,
\* in some round, at least one of the two Merkle inclusion proofs fails
\* against the round's root, even if the other one succeeds.
C8_OneMerkleFailureRejects ==
    (/\ pc = "verified" /\ proto \in FriProtos
     /\ \E k \in 1 .. Len(sub.checks) : ~sub.checks[k][1] \/ ~sub.checks[k][2])
    => result = "reject"

\* C9: FRI folding rejection: with an honest proof in which final_poly[0], or
\* one claimed_sums[k], is replaced by another field element, verify returns
\* false.
C9_FoldingTamperRejected ==
    (/\ pc = "verified" /\ proto = "fri"
     /\ proof.final_poly # honest.final_poly \/ proof.claimed_sums # honest.claimed_sums)
    => result = "reject"

\* the honest prover has made a proof and nothing has changed it
HonestFriProof == proto \in FriProtos /\ pc \in {"proved", "verified"} /\ proof = honest

\* the commit phase of the run in the current state
RunCommitted ==
    IF proto = "fri"
    THEN fri_committed(FRIProtocolNew(input.poly, input.blowup_factor))
    ELSE optimized_committed(FRIProtocolNew(input.poly, input.blowup_factor))

\* the query index of the run and the domain size D
RunQuery(committed) ==
    QueryIndex(FRIProtocolNew(input.poly, input.blowup_factor), committed.t)
RunDomain == domain_size(FRIProtocolNew(input.poly, input.blowup_factor))

\* round k (from 0) records f^(k) at q mod D_k and at (q + D_k/2) mod D_k
ValuesAtQuery(committed, q, k) ==
    LET D_k == RunDomain \div Pow2(k)
        f_k == committed.all_evals[k + 1]
    IN /\ proof.values_at_index[k + 1] = f_k[(q % D_k) + 1]
       /\ proof.values_at_neg_index[k + 1] = f_k[((q + D_k \div 2) % D_k) + 1]

\* the Merkle paths of round k are those of the leaves q mod D_k and
\* (q + D_k/2) mod D_k
PathsAtQuery(q, k) ==
    LET D_k == RunDomain \div Pow2(k)
    IN /\ proof.proofs_at_index[k + 1].leaf_index = q % D_k
       /\ proof.proofs_at_neg_index[k + 1].leaf_index = (q + D_k \div 2) % D_k

\* the claimed value recorded for round k >= 1 is f^(k)[q mod D_k]
ClaimedAtQuery(committed, q, k) ==
    proof.claimed_sums[k] = committed.all_evals[k + 1][(q % (RunDomain \div Pow2(k))) + 1]

QueryPositionsOk(committed) ==
    \A k \in 0 .. (Len(proof.root_hashes) - 1) :
        /\ ValuesAtQuery(committed, RunQuery(committed), k)
        /\ PathsAtQuery(RunQuery(committed), k)
        /\ k >= 1 => ClaimedAtQuery(committed, RunQuery(committed), k)

\* C20: for the squeezed query index q, in every round k the prover records
\* the value and Merkle path of f^(k) at index q mod D_k and at index
\* (q + D_k/2) mod D_k, where D_k = D / 2^k, and for k >= 1 the recorded
\* claimed value is f^(k)[q mod D_k].
C20_QueryPositions ==
    HonestFriProof => QueryPositionsOk(RunCommitted)

\* the values alone, without the Merkle paths, from round 1 on
C20_ValuesAtQueryLaterRounds ==
    HonestFriProof =>
        \A k \in 1 .. (Len(proof.root_hashes) - 1) :
            ValuesAtQuery(RunCommitted, RunQuery(RunCommitted), k)

\* round 0 records the values at q and q + D/2
C20_ValuesAtQueryRoundZero ==
    HonestFriProof => ValuesAtQuery(RunCommitted, RunQuery(RunCommitted), 0)

\* the claimed values are those at q mod D_k
C20_ClaimedAtQuery ==
    HonestFriProof =>
        \A k \in 1 .. (Len(proof.root_hashes) - 1) :
            ClaimedAtQuery(RunCommitted, RunQuery(RunCommitted), k)

\* a FRI verifier has accepted the proof of the current state
FriAccepted == proto \in FriProtos /\ pc = "verified" /\ result = "accept"

\* claimed_sums[k] (from 1) is a value opened in round k + 1 (from 1) whose
\* inclusion proof the verifier found valid
ClaimIsOpenedNext(k) ==
    \/ proof.claimed_sums[k] = proof.values_at_index[k + 1] /\ sub.checks[k + 1][1]
    \/ proof.claimed_sums[k] = proof.values_at_neg_index[k + 1] /\ sub.checks[k + 1][2]

\* C23: the FRI verifier accepts only if, for every round before the last,
\* the claimed value it compares with the folded value of the round is the
\* value committed in the next round's Merkle tree at the folded position: it
\* equals values_at_index or values_at_neg_index of the next round and is
\* covered by a verified inclusion proof.
C23_CrossRoundConsistency ==
    FriAccepted => \A k \in 1 .. (Len(proof.root_hashes) - 1) : ClaimIsOpenedNext(k)

\* the same for the proofs the prover made, unchanged
C23_CrossRoundHonest ==
    (FriAccepted /\ proof = honest) =>
        \A k \in 1 .. (Len(proof.root_hashes) - 1) : ClaimIsOpenedNext(k)

\* the claimed value is at least equal to one of the two values opened next
C23_ClaimEqualsOpenedValue ==
    FriAccepted =>
        \A k \in 1 .. (Len(proof.root_hashes) - 1) :
            proof.claimed_sums[k] \in {proof.values_at_index[k + 1],
                                       proof.values_at_neg_index[k + 1]}

\* a FRI verifier has accepted, whoever chose the opened index
FriAcceptedAnyQuery ==
    proto \in FriProtos /\ pc \in {"verified", "verified_chosen"} /\ result = "accept"

\* round 0 is opened at the index q of the transcript and at its antipode
OpenedAtSqueezedIndex(q) ==
    /\ proof.proofs_at_index[1].leaf_index = q
    /\ proof.proofs_at_neg_index[1].leaf_index = (q + RunDomain \div 2) % RunDomain

\* C24: the FRI verifier derives the query index q from its own transcript
\* after the last root, as the prover does, and the domain element of the
\* folding check comes from that q (the second opening being its antipode),
\* not from a leaf index chosen by the proof: an accepted proof is opened at q.
C24_QueryIndexIsVerifiers ==
    FriAcceptedAnyQuery => OpenedAtSqueezedIndex(RunQuery(RunCommitted))

\* every proof opened at an index other than the squeezed one is refused
C24_ChosenIndexRefused ==
    (proto \in FriProtos /\ pc = "verified_chosen") => result # "accept"

-----------------------------------------------------------------------------
(* Circuit runs: evaluate and layer_i_add_mul of gkr_protocol.rs on the    *)
(* circuits of the GKR runs and on every one-layer circuit of one or two   *)
(* gates over four input wires.                                            *)

WireIndices == {0, 1, 2, 3}
GateOps == {"Add", "Mul"}

\* one gate per output wire, outputs packed from 0
GatesTo(out) == {Gate(l, r, o, out) : l \in WireIndices, r \in WireIndices, o \in GateOps}

SmallLayers ==
    {<<g>> : g \in GatesTo(0)} \cup {<<g, h>> : g \in GatesTo(0), h \in GatesTo(1)}

\* a layer of four gates followed by one gate that adds its last two wires
WideThenOneCircuit ==
    [inputs |-> <<1, 2, 3, 4, 5, 6, 7, 8>>,
     layers |-> << << Gate(0, 1, "Add", 0), Gate(2, 3, "Mul", 1),
                      Gate(4, 5, "Mul", 2), Gate(6, 7, "Mul", 3) >>,
                   << Gate(2, 3, "Add", 0) >> >>]

CircuitInputs ==
    {[c |-> [inputs |-> <<2, 3, 4, 5>>, layers |-> <<gates>>]] : gates \in SmallLayers}
    \cup {[c |-> g.c] : g \in GkrInputs}
    \cup {[c |-> WideThenOneCircuit]}

InitCircuit ==
    /\ proto = "circuit"
    /\ salt \in Salts
    /\ input \in CircuitInputs
    /\ proof = NoProof /\ honest = NoProof /\ result = "none" /\ sub = NoSub
    /\ pc = "init"

\* Circuit::evaluate on the run's circuit
CircuitEvaluate ==
    /\ pc = "init"
    /\ proof' = [ok |-> TRUE, eval_layers |-> circuit_evaluate(input.c)]
    /\ pc' = "evaluated"
    /\ UNCHANGED <<proto, salt, input, honest, result, sub>>

\* the writes mul_vec[index] and add_vec[index] panic past the table's end
add_mul_in_range(gates) ==
    \A g \in 1 .. Len(gates) :
        gate_index(gates, gates[g]) < Pow2(2 * input_bits(gates) + output_bits(gates))

\* Circuit::layer_i_add_mul on one layer of the run's circuit
CircuitAddMul ==
    /\ pc = "init"
    /\ \E layer_i \in 1 .. Len(input.c.layers) :
          IF add_mul_in_range(input.c.layers[layer_i])
          THEN /\ sub' = [kind |-> "add_mul", layer_i |-> layer_i,
                          add_vec |-> layer_i_add_mul(input.c, layer_i)[1],
                          mul_vec |-> layer_i_add_mul(input.c, layer_i)[2]]
               /\ pc' = "tabled"
               /\ result' = "none"
          ELSE /\ sub' = [kind |-> "add_mul", layer_i |-> layer_i]
               /\ pc' = "aborted"
               /\ result' = "abort"
    /\ UNCHANGED <<proto, salt, input, proof, honest>>

NextCircuit == CircuitEvaluate \/ CircuitAddMul

SpecCircuit == InitCircuit /\ [][NextCircuit]_vars

\* the gates of the layer the run asked the tables of
TabledGates == input.c.layers[sub.layer_i]

\* the bit widths the tables are to have for a layer of these gates
WidthsOk(gates) ==
    IF Len(gates) = 1 THEN input_bits(gates) = 1 /\ output_bits(gates) = 1
    ELSE /\ Pow2(output_bits(gates)) = NextPow2(Len(gates))
         /\ input_bits(gates) = output_bits(gates) + 1

\* the table has 1 at (output || left || right) exactly for the gates of op
TableMarksGates(table, gates, op) ==
    LET ib == input_bits(gates)
        ob == output_bits(gates)
    IN /\ Len(table) = Pow2(ob + 2 * ib)
       /\ \A out \in 0 .. (Pow2(ob) - 1) :
             \A l \in 0 .. (Pow2(ib) - 1) :
                \A r \in 0 .. (Pow2(ib) - 1) :
                   table[out * Pow2(2 * ib) + l * Pow2(ib) + r + 1] =
                      IF \E g \in 1 .. Len(gates) :
                            gates[g] = Gate(l, r, op, out)
                      THEN 1 ELSE 0

\* every wire index of the layer fits the layer's bit widths
WiresFit(gates) ==
    \A g \in 1 .. Len(gates) :
        /\ gates[g].left < Pow2(input_bits(gates))
        /\ gates[g].right < Pow2(input_bits(gates))
        /\ gates[g].output < Pow2(output_bits(gates))

AddMulAsked == proto = "circuit" /\ pc \in {"tabled", "aborted"}

\* C26: for every layer, layer_i_add_mul returns two tables of length
\* 2^(output_bits + 2*input_bits), with input_bits = output_bits = 1 for a
\* one-gate layer and otherwise output_bits = log2(next_pow2(gate_count)) and
\* input_bits = output_bits + 1; the add (resp. mul) table holds 1 at index
\* (output || left || right) exactly when the layer has an Add (resp. Mul)
\* gate with those indices and 0 everywhere else.
C26_AddMulTables ==
    AddMulAsked =>
        /\ pc = "tabled"
        /\ WidthsOk(TabledGates)
        /\ TableMarksGates(sub.add_vec, TabledGates, "Add")
        /\ TableMarksGates(sub.mul_vec, TabledGates, "Mul")

\* the same of the layers whose wire indices fit the bit widths
C26_AddMulTablesWhenWiresFit ==
    (AddMulAsked /\ WiresFit(TabledGates)) =>
        /\ pc = "tabled"
        /\ WidthsOk(TabledGates)
        /\ TableMarksGates(sub.add_vec, TabledGates, "Add")
        /\ TableMarksGates(sub.mul_vec, TabledGates, "Mul")

\* the lengths and bit widths alone, of every layer the call returns for
C26_TableLengths ==
    (proto = "circuit" /\ pc = "tabled") =>
        /\ WidthsOk(TabledGates)
        /\ Len(sub.add_vec) = Pow2(output_bits(TabledGates) + 2 * input_bits(TabledGates))
        /\ Len(sub.mul_vec) = Len(sub.add_vec)

\* a one-gate layer that reads wires 2 and 3 gets its 1 at (1 || 1 || 1)
C26_WideWireMisplaced ==
    (AddMulAsked /\ TabledGates = <<Gate(2, 3, "Add", 0)>>) =>
        /\ pc = "tabled"
        /\ sub.add_vec = <<0, 0, 0, 0, 0, 0, 0, 1>>

\* the value a gate of the layer computes from the vector below it
GateValue(gate, below) ==
    IF gate.op = "Add" THEN FAdd(below[gate.left + 1], below[gate.right + 1])
    ELSE FMul(below[gate.left + 1], below[gate.right + 1])

Evaluated == proto = "circuit" /\ pc = "evaluated"

\* C27: evaluate returns layers.len() + 1 vectors, the first being the
\* inputs, and for every layer i and every gate g of it the entry at
\* g.output of vector i + 1 is the sum (Add) or the product (Mul) of the
\* entries at g.left and g.right of vector i.
C27_Evaluate ==
    Evaluated =>
        LET r == proof.eval_layers
            layers == input.c.layers
        IN /\ Len(r) = Len(layers) + 1
           /\ r[1] = input.c.inputs
           /\ \A i \in 1 .. Len(layers) :
                 /\ Len(r[i + 1]) = Len(layers[i])
                 /\ \A g \in 1 .. Len(layers[i]) :
                       r[i + 1][layers[i][g].output + 1] = GateValue(layers[i][g], r[i])

\* inputs 1..8 with the gates of E4 give [3,12,30,56], [15,1680], [1695]
E4Evaluated ==
    /\ Evaluated
    /\ input.c = E4Circuit(<<1, 2, 3, 4, 5, 6, 7, 8>>)
    /\ proof.eval_layers = << <<1, 2, 3, 4, 5, 6, 7, 8>>, <<3, 12, 30 % P, 56 % P>>,
                              <<15, 1680 % P>>, <<1695 % P>> >>

C27_Witness == E4Evaluated

\* the circuit of E4 never evaluates to anything else
C27_E4Values ==
    (Evaluated /\ input.c = E4Circuit(<<1, 2, 3, 4, 5, 6, 7, 8>>)) => E4Evaluated

-----------------------------------------------------------------------------
(* Sum-check prover runs: proof() of gkr/partial_sum_check.rs and proof()  *)
(* of partial_sum_check.rs on one or two terms of two or three factors.    *)

PscProtos == {"gkr_partial_sum_check", "partial_sum_check"}

InitRounds ==
    /\ proto \in PscProtos
    /\ salt \in Salts
    /\ input \in ScInputs
    /\ proof = NoProof /\ honest = NoProof /\ result = "none" /\ sub = NoSub
    /\ pc = "init"

PscProve ==
    /\ pc = "init"
    /\ \E pr \in {IF proto = "gkr_partial_sum_check"
                   THEN psc_proof(input.terms, TrueSum(input.terms))
                   ELSE partial_sum_check_proof(input.terms, TrueSum(input.terms))} :
          /\ proof' = pr
          /\ pc' = IF pr.ok THEN "proved" ELSE "aborted"
          /\ result' = IF pr.ok THEN "none" ELSE "abort"
    /\ UNCHANGED <<proto, salt, input, honest, sub>>

\* the round-polynomial samples of one term of the run's input:
\* univariate_to_evaluation of gkr/product_poly.rs, evaluate of product_poly.rs
PscSample ==
    /\ pc = "init"
    /\ \E k \in 1 .. Len(input.terms) :
          sub' = [kind |-> "samples", term |-> k,
                  values |-> IF proto = "gkr_partial_sum_check"
                             THEN univariate_to_evaluation(input.terms[k])
                             ELSE product_poly_evaluate(input.terms[k])]
    /\ pc' = "sampled"
    /\ UNCHANGED <<proto, salt, input, proof, honest, result>>

NextRounds == PscProve \/ PscSample

SpecRounds == InitRounds /\ [][NextRounds]_vars

\* the number of variables v and of factors per term d of the run's input
InputVars == ILog2(Len(input.terms[1][1]))
InputFactors == Len(input.terms[1])

\* v round polynomials of d + 1 samples each, every factor left of length 1
RoundShapeOk(pr) ==
    /\ Len(pr.round_polys) = InputVars
    /\ \A r \in 1 .. Len(pr.round_polys) : Len(pr.round_polys[r]) = InputFactors + 1
    /\ \A k \in 1 .. Len(pr.sum_poly) :
          \A j \in 1 .. Len(pr.sum_poly[k]) : Len(pr.sum_poly[k][j]) = 1

\* v challenges, one per variable
ChallengesOk(pr) == "challenges" \in DOMAIN pr /\ Len(pr.challenges) = InputVars

\* C25: for terms whose factors are tables of 2^v entries with d factors per
\* term, partial_sum_check::proof emits exactly v round polynomials and v
\* challenges, one per variable whatever d is, each round polynomial having
\* d + 1 samples, and leaves every factor reduced to a table of length 1.
C25_RoundCount ==
    (proto \in PscProtos /\ pc \in {"proved", "aborted"}) =>
        pc = "proved" /\ RoundShapeOk(proof) /\ ChallengesOk(proof)

\* the same for proof() of gkr/partial_sum_check.rs alone
C25_RoundCountGkrCopy ==
    (proto = "gkr_partial_sum_check" /\ pc \in {"proved", "aborted"}) =>
        pc = "proved" /\ RoundShapeOk(proof) /\ ChallengesOk(proof)

\* proof() of partial_sum_check.rs has the stated rounds when d = v
C25_RoundCountRootCopyEqual ==
    (proto = "partial_sum_check" /\ pc \in {"proved", "aborted"}
     /\ InputVars = InputFactors) =>
        pc = "proved" /\ RoundShapeOk(proof)

\* proof() of partial_sum_check.rs runs one round per factor
C25_RootCopyRoundsPerFactor ==
    (proto = "partial_sum_check" /\ pc = "proved") =>
        Len(proof.round_polys) = InputFactors

\* the term the samples were taken of
SampledTerm == input.terms[sub.term]

\* factor k at first variable i and assignment x (from 0) of the others:
\* the table is linear in its first variable, the most significant index bit
FactorAt(pp, k, i, x) ==
    LET half == Len(pp[k]) \div 2
    IN FAdd(FMul(FSub(1, i % P), pp[k][x + 1]), FMul(i % P, pp[k][half + x + 1]))

RECURSIVE FactorsProduct(_, _, _, _)
FactorsProduct(pp, k, i, x) ==
    IF k > Len(pp) THEN 1
    ELSE FMul(FactorAt(pp, k, i, x), FactorsProduct(pp, k + 1, i, x))

\* the sum over the assignments of the other variables
SampleAt(pp, i) ==
    SumSeq([x \in 1 .. (Len(pp[1]) \div 2) |-> FactorsProduct(pp, 1, i, x - 1)])

Sampled == proto \in PscProtos /\ pc = "sampled"

\* C28: for a ProductPoly of d factors over v >= 1 variables,
\* univariate_to_evaluation returns d + 1 values where value i (i = 0..d) is
\* the sum over all assignments x of the remaining v - 1 Boolean variables
\* of the product over factors k of p_k(i, x); value 0 + value 1 equals the
\* sum of the elementwise product of the factor tables.
C28_RoundPolySamples ==
    Sampled =>
        /\ sub.values # Abort
        /\ Len(sub.values) = Len(SampledTerm) + 1
        /\ \A i \in 0 .. Len(SampledTerm) : sub.values[i + 1] = SampleAt(SampledTerm, i)
        /\ FAdd(sub.values[1], sub.values[2]) = SumSeq(pp_reduce(SampledTerm))

\* two factors 2ab over two variables give [0, 4, 16]
C28_Witness ==
    /\ Sampled
    /\ proto = "gkr_partial_sum_check"
    /\ SampledTerm = << <<0, 0, 0, 2>>, <<0, 0, 0, 2>> >>
    /\ sub.values = <<0, 4, 16>>

\* three factors over two variables, by evaluate of product_poly.rs
C28_WitnessRootCopy ==
    /\ Sampled
    /\ proto = "partial_sum_check"
    /\ Len(SampledTerm) = 3 /\ Len(SampledTerm[1]) = 4
    /\ Len(sub.values) = 4

-----------------------------------------------------------------------------
(* FRI prover runs over coefficient vectors of every length from 1 to 4    *)
(* and blow-up factors 1 to 3: generate_proof() alone.                     *)

ShapeCoefficients == {0, 1, 5}
Blowups == {1, 2, 3}

FriShapeInputs ==
    {[poly |-> p, blowup_factor |-> b] :
        p \in {<<a>> : a \in ShapeCoefficients}
              \cup {<<a, b>> : a, b \in ShapeCoefficients}
              \cup {<<a, b, c>> : a, b, c \in ShapeCoefficients}
              \cup {<<a, b, c, d>> : a, b, c, d \in ShapeCoefficients},
        b \in Blowups}

InitFriShape ==
    /\ proto = "fri"
    /\ salt \in Salts
    /\ input \in FriShapeInputs
    /\ proof = NoProof /\ honest = NoProof /\ result = "none" /\ sub = NoSub
    /\ pc = "init"

NextFriShape == FriProve

SpecFriShape == InitFriShape /\ [][NextFriShape]_vars

\* generate_proof has run, to its end or to a panic
FriShapeDone == proto = "fri" /\ pc \in {"proved", "aborted"}

\* the domain size of the run in the current state
ShapeDomain == domain_size(FRIProtocolNew(input.poly, input.blowup_factor))

\* D is the smallest power of two >= (deg + 1) * b
SmallestPow2AtLeast(D, n) ==
    /\ IsPow2(D) /\ D >= n
    /\ \A E \in 1 .. (D - 1) : ~(IsPow2(E) /\ E >= n)

\* log2(D) roots, one value/path pair per round, a final_poly of length 1
ProofShapeOk(pr, D) ==
    /\ Len(pr.root_hashes) = ILog2(D)
    /\ Len(pr.values_at_index) = ILog2(D)
    /\ Len(pr.values_at_neg_index) = ILog2(D)
    /\ Len(pr.proofs_at_index) = ILog2(D)
    /\ Len(pr.proofs_at_neg_index) = ILog2(D)
    /\ Len(pr.final_poly) = 1

\* C21: for every non-empty coefficient vector and every blow-up factor
\* b >= 1 the domain size D is the smallest power of two >= (deg+1)*b,
\* generate_proof completes and returns exactly log2(D) Merkle roots with one
\* value/path pair per round, and final_poly has length 1.
C21_DomainAndRounds ==
    FriShapeDone =>
        /\ SmallestPow2AtLeast(ShapeDomain, Len(input.poly) * input.blowup_factor)
        /\ pc = "proved"
        /\ ProofShapeOk(proof, ShapeDomain)

\* the domain size alone
C21_DomainSize ==
    FriShapeDone =>
        SmallestPow2AtLeast(ShapeDomain, Len(input.poly) * input.blowup_factor)

\* with blow-up factor 2 and a length that is a power of two the proof has
\* the stated shape
C21_ShapeBlowupTwo ==
    (FriShapeDone /\ input.blowup_factor = 2 /\ IsPow2(Len(input.poly))) =>
        pc = "proved" /\ ProofShapeOk(proof, ShapeDomain)

\* generate_proof completes but final_poly is not a constant
C21_FinalPolyLengthOne ==
    (FriShapeDone /\ pc = "proved") => Len(proof.final_poly) = 1

\* generate_proof completes
C21_ProverCompletes ==
    FriShapeDone => pc = "proved"

-----------------------------------------------------------------------------
(* Multilinear evaluation runs: MultiLinearPoly::evaluate on a table and a *)
(* point with one coordinate per variable.                                 *)

\* the points the larger tables are evaluated at
MlePoints3 ==
    {<<6, 4, 0>>, <<0, 0, 0>>, <<1, 0, 1>>, <<0, 1, 1>>, <<2, 3, 16>>, <<5, 5, 5>>}
MlePoints4 ==
    {<<5, 2, 3, 1>>, <<0, 1, 0, 1>>, <<1, 1, 1, 0>>, <<16, 8, 4, 2>>}

MleInputs ==
    {[table |-> <<x>>, point |-> <<>>] : x \in F}
    \cup {[table |-> t, point |-> pt] :
            t \in TablePool(1) \cup {<<9, 9>>}, pt \in Points(1)}
    \cup {[table |-> t, point |-> pt] : t \in TablePool(2), pt \in Points(2)}
    \cup {[table |-> t, point |-> pt] : t \in TablePool(3), pt \in MlePoints3}
    \cup {[table |-> E1Table, point |-> pt] : pt \in MlePoints4}

InitMLE ==
    /\ proto = "mle"
    /\ salt = 0
    /\ input \in MleInputs
    /\ proof = NoProof /\ honest = NoProof /\ result = <<>> /\ sub = NoSub
    /\ pc = "init"

MleEvaluate ==
    /\ pc = "init"
    /\ result' = evaluate(input.table, input.point)
    /\ pc' = "done"
    /\ UNCHANGED <<proto, salt, input, proof, honest, sub>>

\* the scalars a variable is fixed to
PartialScalars == {0, 1, 3, 4, 16}

\* partial_evaluate of the run's table at one of its variables
MlePartialEvaluate ==
    /\ pc = "init"
    /\ \E j \in 0 .. (variable_count(input.table) - 1) :
          \E r \in PartialScalars :
             sub' = [kind |-> "partial", r |-> r, pos |-> j,
                     out |-> partial_evaluate(input.table, r, j)]
    /\ pc' = "partial"
    /\ UNCHANGED <<proto, salt, input, proof, honest, result>>

NextMLE == MleEvaluate \/ MlePartialEvaluate

SpecMLE == InitMLE /\ [][NextMLE]_vars

\* the weight of table entry i (from 0) at rs: coordinate j (from 1) counts
\* for the j-th bit of i from the most significant one
RECURSIVE LagrangeWeight(_, _, _)
LagrangeWeight(rs, i, j) ==
    IF j > Len(rs) THEN 1
    ELSE FMul(IF Bit(i, Len(rs) - j) = 1 THEN rs[j] ELSE FSub(1, rs[j]),
              LagrangeWeight(rs, i, j + 1))

LagrangeMLE(p, rs) ==
    SumSeq([i \in 1 .. Len(p) |-> FMul(p[i], LagrangeWeight(rs, i - 1, 1))])

\* C12: for a table p of 2^v entries and rs in F^v, evaluate(rs) is the
\* one-entry table holding the sum over i of p[i] times the product over j
\* of rs[j] or 1 - rs[j] by bit j of i from the most significant bit; with
\* v = 0, evaluate([]) is the stored value.
C12_EvaluateIsLagrangeMLE ==
    (proto = "mle" /\ pc = "done")
    => /\ result = <<LagrangeMLE(input.table, input.point)>>
       /\ Len(input.table) = 1 => result = input.table

\* a three-variable table evaluated at a point off the hypercube whose
\* coordinates differ
C12_Witness ==
    /\ proto = "mle" /\ pc = "done"
    /\ input.table = <<0, 4, 0, 4, 0, 4, 3, 7>> /\ input.point = <<6, 4, 0>>
    /\ result = <<LagrangeMLE(input.table, input.point)>>

\* no variable: the table holds one value
C12_WitnessConstant ==
    proto = "mle" /\ pc = "done" /\ input.point = <<>> /\ result = <<9>>

\* index s without its bit b (bits counted from the least significant one)
DropBit(s, b) == (s \div Pow2(b + 1)) * Pow2(b) + (s % Pow2(b))

PartiallyEvaluated == proto = "mle" /\ pc = "partial"

\* C29: for a table of 2^v entries, every scalar r and every position j in
\* 0..v-1 (variable 0 is the most significant index bit), partial_evaluate(r, j)
\* returns a table of 2^(v-1) entries whose entry for each assignment of the
\* other variables, kept in their original order, is y0 + (y1 - y0) * r with
\* y0 and y1 the source entries having bit j = 0 and bit j = 1; no index read
\* is out of range.
C29_PartialEvaluateAnyPosition ==
    PartiallyEvaluated =>
        LET c == input.table
            v == variable_count(c)
            b == v - 1 - sub.pos
        IN /\ sub.out # Abort
           /\ Len(sub.out) = Pow2(v - 1)
           /\ \A s \in 0 .. (Len(c) - 1) :
                 Bit(s, b) = 0 =>
                    sub.out[DropBit(s, b) + 1] =
                       FAdd(c[s + 1], FMul(FSub(c[s + Pow2(b) + 1], c[s + 1]), sub.r))

\* test_partial_evaluate_at_last_index with the table of the runs: the last
\* of three variables fixed to 3
C29_Witness ==
    /\ PartiallyEvaluated
    /\ input.table = <<0, 4, 0, 4, 0, 4, 3, 7>> /\ sub.pos = 2 /\ sub.r = 3
    /\ sub.out = <<12, 12, 12, 15>>

\* a middle variable of the four-variable table
C29_WitnessMiddle ==
    /\ PartiallyEvaluated
    /\ input.table = E1Table /\ sub.pos = 1 /\ sub.r = 4
    /\ Len(sub.out) = 8

\* the loop taken step by step returns the same table
C29_LoopStepByStep ==
    PartiallyEvaluated =>
        sub.out = partial_evaluate_loop(input.table, sub.r,
                      Pow2(variable_count(input.table) - sub.pos - 1), 0, <<>>)

-----------------------------------------------------------------------------
(* Commitment runs: a trusted setup over taus, then compute_commitment of  *)
(* a table with one entry per basis element.                               *)

\* every table of the evaluation runs, with the point taken as the taus, and
\* the table and taus of test_compute_commitment
CommitInputs ==
    {[poly |-> m.table, taus |-> m.point] : m \in MleInputs}
    \cup {[poly |-> E6Input.poly, taus |-> E6Input.taus]}

InitCommit ==
    /\ proto = "commit"
    /\ salt = 0
    /\ input \in CommitInputs
    /\ proof = NoProof /\ honest = NoProof /\ result = "none" /\ sub = NoSub
    /\ pc = "init"

\* initialize(taus), kept with the plain basis it encrypts
CommitSetup ==
    /\ pc = "init"
    /\ sub' = [kind |-> "setup", basis |-> compute_lagrange_basis(input.taus),
               g1_arr |-> initialize(input.taus).g1_arr]
    /\ pc' = "setup"
    /\ UNCHANGED <<proto, salt, input, proof, honest, result>>

\* compute_commitment(poly, g1_arr)
CommitPoly ==
    /\ pc = "setup"
    /\ result' = compute_commitment(input.poly, sub.g1_arr)
    /\ pc' = "committed"
    /\ UNCHANGED <<proto, salt, input, proof, honest, sub>>

NextCommit == CommitSetup \/ CommitPoly

SpecCommit == InitCommit /\ [][NextCommit]_vars

\* poly at the taus, by MultiLinearPoly::evaluate
PolyAtTaus == evaluate(input.poly, input.taus)[1]

\* C30: for every tau in F^v and every table poly of 2^v entries, the basis
\* from compute_lagrange_basis(tau) satisfies sum over i of poly[i] * L_i(tau)
\* = poly.evaluate(tau), so compute_commitment(poly, g1^L(tau)) equals
\* g1^(poly(tau)).
C30_CommitmentValue ==
    (proto = "commit" /\ pc = "committed") =>
        /\ Len(sub.basis) = Len(input.poly)
        /\ SumSeq([i \in 1 .. Len(input.poly) |-> FMul(input.poly[i], sub.basis[i])])
              = PolyAtTaus
        /\ result = PolyAtTaus

\* table [0,4,0,4,0,4,3,7] with tau = (5,2,3) commits to g1^42
C30_Witness ==
    /\ proto = "commit" /\ pc = "committed"
    /\ input.poly = <<0, 4, 0, 4, 0, 4, 3, 7>> /\ input.taus = <<5, 2, 3>>
    /\ result = 42 % P

\* taus whose coordinates differ, off the hypercube, over two variables
C30_WitnessTwoVariables ==
    /\ proto = "commit" /\ pc = "committed"
    /\ input.poly = <<7, 0, 16, 5>> /\ input.taus = <<3, 11>>
    /\ result = PolyAtTaus

-----------------------------------------------------------------------------
(* Merkle tree runs: new() on a sequence of leaves, generate_proof() for   *)
(* one leaf, verify_proof() of that leaf with the proof.                   *)

\* the byte strings used as leaves, and one that is in no sequence
LeafPool == {<<104, 105>>, <<102>>, <<>>}
AbsentLeaf == <<113, 117, 120>>

MaxLeaves == 5

RECURSIVE LeafSeqs(_)
LeafSeqs(n) ==
    IF n = 0 THEN {<<>>}
    ELSE {Append(q, l) : q \in LeafSeqs(n - 1), l \in LeafPool}

\* eight different leaves, as in test_merkle_tree
EightLeaves == <<<<1>>, <<2>>, <<3>>, <<4>>, <<5>>, <<6>>, <<7>>, <<8>>>>

MerkleInputs ==
    {[data |-> d, leaf |-> l] :
        d \in UNION {LeafSeqs(n) : n \in 0 .. MaxLeaves},
        l \in LeafPool \cup {AbsentLeaf}}
    \cup {[data |-> d, leaf |-> l] :
            d \in {EightLeaves, Take(EightLeaves, 7), Take(EightLeaves, 6)},
            l \in {<<1>>, <<2>>, <<5>>, <<6>>, <<7>>, <<8>>, AbsentLeaf}}

InData == \E k \in 1 .. Len(input.data) : input.data[k] = input.leaf

InitMerkle ==
    /\ proto = "merkle"
    /\ salt = 0
    /\ input \in MerkleInputs
    /\ proof = NoProof /\ honest = NoProof /\ result = "none" /\ sub = NoSub
    /\ pc = "init"

MerkleBuild ==
    /\ pc = "init"
    /\ sub' = [kind |-> "tree", layers |-> merkle_new(input.data)]
    /\ pc' = "built"
    /\ UNCHANGED <<proto, salt, input, proof, honest, result>>

MerkleProve ==
    /\ pc = "built"
    /\ \E mp \in {merkle_tree_generate_proof(sub.layers, input.leaf)} :
          /\ proof' = mp
          /\ pc' = IF mp.outcome = "some" THEN "proved"
                   ELSE IF mp.outcome = "none" THEN "no_proof" ELSE "aborted"
          /\ result' = IF mp.outcome = "abort" THEN "abort" ELSE "none"
    /\ UNCHANGED <<proto, salt, input, honest, sub>>

MerkleVerify ==
    /\ pc = "proved"
    /\ result' = merkle_tree_verify_proof(sub.layers, input.leaf, proof)
    /\ pc' = "verified"
    /\ UNCHANGED <<proto, salt, input, proof, honest, sub>>

NextMerkle == MerkleBuild \/ MerkleProve \/ MerkleVerify

SpecMerkle == InitMerkle /\ [][NextMerkle]_vars

\* C13: for a tree built from a non-empty sequence of leaves (odd lengths
\* and repeated leaves included), for every leaf of the sequence
\* generate_proof returns a proof and verify_proof of the leaf with it
\* returns true.
C13_MerkleRoundTrip ==
    (proto = "merkle" /\ InData)
    => /\ pc \notin {"no_proof", "aborted"}
       /\ pc = "verified" => result = "true"

\* a repeated leaf at an odd position of a sequence of odd length has been
\* proved and verified
C13_Witness ==
    /\ proto = "merkle" /\ pc = "verified" /\ result = "true"
    /\ input.data = <<<<104, 105>>, <<102>>, <<>>, <<102>>, <<102>>>>
    /\ input.leaf = <<102>>

\* C14: for any tree, the tree of the empty sequence included,
\* generate_proof returns None, without aborting, when the leaf is not
\* among the leaves.
C14_AbsentLeafIsNone ==
    (proto = "merkle" /\ ~InData /\ pc \notin {"init", "built"})
    => pc = "no_proof" /\ proof.outcome = "none"

\* the part of C14 about trees with at least one leaf
C14_AbsentLeafNonEmptyTree ==
    (proto = "merkle" /\ ~InData /\ input.data # <<>> /\ pc \notin {"init", "built"})
    => pc = "no_proof" /\ proof.outcome = "none"

-----------------------------------------------------------------------------
(* Interpolation runs: a polynomial is sampled at pairwise distinct points *)
(* and UnivariatePoly::interpolate is applied to the samples.              *)

\* coefficient vectors of 1, 2 and 3 coefficients
UniPolys(n) ==
    IF n = 1 THEN {<<c>> : c \in F}
    ELSE IF n = 2 THEN {<<0, 2>>, <<1, 1>>, <<5, 0>>, <<16, 9>>}
    ELSE {<<1, 2, 3>>, <<0, 0, 1>>, <<7, 16, 0>>, <<4, 0, 13>>}

\* sequences of n pairwise distinct points
UniPoints(n) ==
    IF n = 1 THEN {<<x>> : x \in F}
    ELSE IF n = 2 THEN {<<x, y>> : x \in F, y \in {2, 4, 0, 16}} \ {<<x, x>> : x \in F}
    ELSE {<<0, 1, 2>>, <<2, 4, 6>>, <<16, 0, 1>>, <<5, 3, 11>>, <<9, 8, 7>>, <<1, 13, 4>>}

\* <<number of coefficients, number of points>>
UniShapes == {<<1, 1>>, <<1, 2>>, <<1, 3>>, <<2, 2>>, <<2, 3>>, <<3, 3>>}

\* a polynomial with at most as many coefficients as there are points
UniInputs ==
    UNION {{[poly |-> c, xs |-> pts] : c \in UniPolys(mn[1]), pts \in UniPoints(mn[2])} :
              mn \in UniShapes}

InitUni ==
    /\ proto = "interpolate"
    /\ salt = 0
    /\ input \in UniInputs
    /\ proof = NoProof /\ honest = NoProof /\ result = <<>> /\ sub = NoSub
    /\ pc = "init"

\* ys[i] = p(xs[i])
UniSample ==
    /\ pc = "init"
    /\ sub' = [kind |-> "samples",
               ys |-> collect([i \in 1 .. Len(input.xs) |->
                                  uni_evaluate(input.poly, input.xs[i])])]
    /\ pc' = "sampled"
    /\ UNCHANGED <<proto, salt, input, proof, honest, result>>

UniInterpolate ==
    /\ pc = "sampled"
    /\ result' = interpolate(input.xs, sub.ys)
    /\ pc' = "done"
    /\ UNCHANGED <<proto, salt, input, proof, honest, sub>>

NextUni == UniSample \/ UniInterpolate

SpecUni == InitUni /\ [][NextUni]_vars

\* C15: for a polynomial p of degree below n and n pairwise distinct points
\* xs with ys[i] = p(xs[i]), interpolate(xs, ys) evaluates to p(x) at every
\* field element x; the points (2,4), (4,8) give the coefficients [0, 2].
C15_InterpolateRoundTrip ==
    (proto = "interpolate" /\ pc = "done")
    => /\ \A x \in F : uni_evaluate(result, x) = uni_evaluate(input.poly, x)
       /\ (input.xs = <<2, 4>> /\ sub.ys = <<4, 8>>) => result = <<0, 2>>

\* three points, a polynomial of degree two
C15_Witness ==
    /\ proto = "interpolate" /\ pc = "done"
    /\ input.poly = <<1, 2, 3>> /\ input.xs = <<5, 3, 11>>
    /\ result = <<1, 2, 3>>

\* the points of test_interpolate
C15_WitnessTwoX ==
    /\ proto = "interpolate" /\ pc = "done"
    /\ input.xs = <<2, 4>> /\ sub.ys = <<4, 8>> /\ result = <<0, 2>>

-----------------------------------------------------------------------------
(* FFT runs: evaluate() on a coefficient vector, then the inverse          *)
(* butterfly or the scaled interpolate on the values.                      *)

\* the coefficients of test_fft
TestFftCoefficients == <<5, 0, 0, 2>>

RECURSIVE VectorsOver(_, _)
VectorsOver(S, n) ==
    IF n = 0 THEN {<<>>}
    ELSE {Append(q, x) : q \in VectorsOver(S, n - 1), x \in S}

FftInputs ==
    VectorsOver(F, 1) \cup VectorsOver(F, 2) \cup VectorsOver({0, 1, 5}, 4)
    \cup {TestFftCoefficients, <<1, 2, 3, 4, 5, 6, 7, 8>>, <<0, 0, 0, 0, 0, 1, 0, 0>>,
          <<3, 1, 4, 1, 5, 9, 2, 6>>, E1Table}

InitFFT ==
    /\ proto = "fft"
    /\ salt = 0
    /\ input \in {[coefficients |-> c] : c \in FftInputs}
    /\ proof = NoProof /\ honest = NoProof /\ result = <<>> /\ sub = NoSub
    /\ pc = "init"

FftEvaluate ==
    /\ pc = "init"
    /\ sub' = [kind |-> "values", values |-> fft_evaluate(input.coefficients)]
    /\ pc' = "evaluated"
    /\ UNCHANGED <<proto, salt, input, proof, honest, result>>

\* the inverse that does not divide
FftInterpolation ==
    /\ pc = "evaluated"
    /\ result' = fft_interpolation(sub.values)
    /\ pc' = "unscaled"
    /\ UNCHANGED <<proto, salt, input, proof, honest, sub>>

\* the inverse that divides by n
FftInterpolate ==
    /\ pc = "evaluated"
    /\ result' = fft_interpolate(sub.values)
    /\ pc' = "scaled"
    /\ UNCHANGED <<proto, salt, input, proof, honest, sub>>

NextFFT == FftEvaluate \/ FftInterpolation \/ FftInterpolate

SpecFFT == InitFFT /\ [][NextFFT]_vars

\* C16: for a coefficient vector c of power-of-two length n, the forward
\* transform followed by the unscaled inverse butterfly gives n * c[i] at
\* every position i, and followed by the scaled interpolate it gives c.
C16_FftRoundTrip ==
    /\ (proto = "fft" /\ pc = "unscaled")
       => result = [i \in 1 .. Len(input.coefficients) |->
                       FMul(Len(input.coefficients) % P, input.coefficients[i])]
    /\ (proto = "fft" /\ pc = "scaled") => result = input.coefficients

\* the vectors of test_fft: [5, 0, 0, 2] comes back as [20, 0, 0, 8]
C16_Witness ==
    /\ proto = "fft" /\ pc = "unscaled"
    /\ input.coefficients = TestFftCoefficients
    /\ result = <<20 % P, 0, 0, 8>>

\* eight coefficients come back from the scaled inverse
C16_WitnessScaled ==
    /\ proto = "fft" /\ pc = "scaled"
    /\ input.coefficients = <<3, 1, 4, 1, 5, 9, 2, 6>>
    /\ result = input.coefficients

-----------------------------------------------------------------------------
(* Transcript runs: a sequence of absorbs and squeezes on the Transcript   *)
(* of polynomials/src/transcript.rs (proto "transcript"), or of appends    *)
(* and challenges on the Transcript of interactive_sum_check/transcript.rs *)
(* (proto "sum_check_transcript").                                         *)

\* hasher.clone().finalize(): the digest of a hasher state, an injective
\* function of what the hasher was fed
finalize(t) == <<HashOpen>> \o t \o <<HashClose>>

\* the byte arrays handed to absorb and append
ByteArrays == {<<1>>, <<2, 3>>, <<>>}

MaxOps == 4

NoDigest == <<>>

\* sub.state is the hasher state, sub.pre the state before the last
\* operation, sub.out the digest the last squeeze returned and sub.prev_out
\* the digest of the squeeze just before it when no absorb came between
InitTranscript ==
    /\ proto \in {"transcript", "sum_check_transcript"}
    /\ salt = 0
    /\ input = [byte_arrays |-> ByteArrays]
    /\ proof = NoProof /\ honest = NoProof /\ result = "none"
    /\ sub = [kind |-> "hasher", state |-> TranscriptNew, pre |-> TranscriptNew,
              op |-> "new", out |-> NoDigest, prev_out |-> NoDigest, ops |-> 0]
    /\ pc = "ready"

TrAbsorb ==
    /\ proto = "transcript" /\ sub.ops < MaxOps
    /\ \E bytes \in ByteArrays :
          sub' = [sub EXCEPT !.state = absorb(sub.state, bytes), !.pre = sub.state,
                             !.op = "absorb", !.out = NoDigest,
                             !.prev_out = NoDigest, !.ops = @ + 1]
    /\ UNCHANGED <<proto, salt, input, proof, honest, result, pc>>

TrSqueeze ==
    /\ proto = "transcript" /\ sub.ops < MaxOps
    /\ sub' = [sub EXCEPT !.state = squeezeState(sub.state), !.pre = sub.state,
                          !.op = "squeeze", !.out = finalize(sub.state),
                          !.prev_out = sub.out, !.ops = @ + 1]
    /\ UNCHANGED <<proto, salt, input, proof, honest, result, pc>>

TrAppend ==
    /\ proto = "sum_check_transcript" /\ sub.ops < MaxOps
    /\ \E bytes \in ByteArrays :
          sub' = [sub EXCEPT !.state = append(sub.state, bytes), !.pre = sub.state,
                             !.op = "absorb", !.out = NoDigest,
                             !.prev_out = NoDigest, !.ops = @ + 1]
    /\ UNCHANGED <<proto, salt, input, proof, honest, result, pc>>

\* challenge() finalizes a clone and leaves the hasher as it was
TrChallenge ==
    /\ proto = "sum_check_transcript" /\ sub.ops < MaxOps
    /\ sub' = [sub EXCEPT !.pre = sub.state,
                          !.op = "squeeze", !.out = finalize(sub.state),
                          !.prev_out = sub.out, !.ops = @ + 1]
    /\ UNCHANGED <<proto, salt, input, proof, honest, result, pc>>

NextTranscript == TrAbsorb \/ TrSqueeze \/ TrAppend \/ TrChallenge

SpecTranscript == InitTranscript /\ [][NextTranscript]_vars

\* what C17 says of one transcript: a squeeze returns the digest of what
\* was absorbed so far and leaves a state that extends it by that digest,
\* two squeezes in a row return different digests, and an absorb only
\* extends the absorbed sequence
SqueezeFoldsBack ==
    /\ sub.op = "squeeze"
       => /\ sub.out = finalize(sub.pre)
          /\ sub.state = Append(sub.pre, SqueezeMark)
          /\ sub.prev_out # NoDigest => sub.out # sub.prev_out
    /\ sub.op = "absorb"
       => /\ Len(sub.state) >= Len(sub.pre)
          /\ Take(sub.state, Len(sub.pre)) = sub.pre

\* C17: the transcript's squeeze returns the digest of everything absorbed
\* so far and then appends that digest to the state, so two consecutive
\* squeezes without an absorb between them return different digests; absorb
\* changes nothing but the end of the absorbed sequence.  Stated of both
\* transcripts of the library.
C17_SqueezeFoldsBack ==
    proto \in {"transcript", "sum_check_transcript"} => SqueezeFoldsBack

\* the same of the Transcript with absorb and squeeze alone
C17_SqueezeOfTranscriptRs ==
    proto = "transcript" => SqueezeFoldsBack

=============================================================================
